---- MODULE Spec2Model ----
(***************************************************************************)
(* Verification model of the self-driving-car simulation: the tabular      *)
(* Q-learning agent (src/js/network.js), the state codec                   *)
(* (utils_rl.js), and the per-frame loop of main.js.                        *)
(*                                                                         *)
(* Numbers.  JavaScript doubles are replaced by fixed point: state         *)
(* coordinates, speeds and positions are integers in units of 1/Unit,      *)
(* rewards and Q-values integers in units of 1/QUnit.                      *)
(***************************************************************************)
EXTENDS Integers, Sequences, FiniteSets, TLC

\* ------------------------------------------------------------------------
\* Bounds of the model (scaled-down sizes; the source value is in the comment)
\* ------------------------------------------------------------------------
\* replay buffer capacity, 10000 in RLAgent.storeExperience
MemoryCap == 5
\* number of experiences kept on overflow, 8000 in RLAgent.storeExperience
MemoryKeep == 4
\* number of storeExperience calls explored in the buffer model
MaxStores == 8
\* number of storeExperience and of learn calls explored in the greedy-agent model
MaxGreedyStores == 2
MaxGreedyLearns == 2
\* BATCH_SIZE, 32 in main.js
BATCH_SIZE == 1
\* MAX_EPISODE_STEPS, 2000 in main.js
MAX_EPISODE_STEPS == 2
\* STEPS_COUNT, 50 in main.js: the Q-table is saved every STEPS_COUNT steps
STEPS_COUNT == 2
\* number of animation frames explored
MaxFrames == 3
\* longest raw vector given to validateState
MaxRawLen == 11
\* largest ACTION_SIZE given to validateAction
MaxActionSize == 8
\* segment ends given to getIntersection lie on the grid 0..MaxGrid
MaxGrid == 2
\* squares given to polysIntersect: corner in 0..MaxCorner, side in 1..MaxSide
MaxCorner == 3
MaxSide == 3
\* cars in the traffic array, TRAFFIC_COUNT = 50 in main.js
TrafficCount == 2
MaxInputs == 3
MaxCarSteps == 2
MaxKeyLearns == 2
MaxMdpLearns == 7
\* stores and learn calls around the selectAction calls
MaxSelectStores == 2
MaxSelectLearns == 1
\* updates under controls before the car is left alone
MaxCoastDrives == 20
\* stores and learn calls while epsilon decays
MaxDecayStores == 5
MaxDecayLearns == 3
\* number of AI cars, N = 500 in the earlier main.js
NumCars == 2
\* number of page reloads explored
MaxReloads == 1
\* smallest buffer that learn accepts whatever the batch size, 100 in RLAgent.learn
LearnMinMemory == 2
\* epsilon decays only above this buffer length, 500 in RLAgent.learn
DecayMinMemory == 3
\* storeExperience and learn calls explored under SpecLearn
MaxLearnStores == 4
MaxLearnCalls == 1

\* ------------------------------------------------------------------------
\* Fixed point and JavaScript values
\* ------------------------------------------------------------------------
\* one unit of a state coordinate, speed or position is 1/Unit
Unit == 10 * 100
\* one unit of a reward, a Q-value or epsilon is 1/QUnit
QUnit == Unit * Unit

\* JavaScript values that are not numbers, encoded below every number used
JSNaN == 0 - (QUnit * Unit)
JSUndefined == JSNaN - 1
JSNull == JSNaN - 2

IsNumber(v) == v > JSNaN

\* ToNumber: undefined -> NaN, null -> +0
ToNumber(v) == IF v = JSNull THEN 0 ELSE IF v = JSUndefined THEN JSNaN ELSE v

\* a + b, a - b on doubles: NaN is absorbing
NumAdd(a, b) ==
    IF IsNumber(ToNumber(a)) /\ IsNumber(ToNumber(b)) THEN ToNumber(a) + ToNumber(b) ELSE JSNaN
NumSub(a, b) ==
    IF IsNumber(ToNumber(a)) /\ IsNumber(ToNumber(b)) THEN ToNumber(a) - ToNumber(b) ELSE JSNaN

Min2(a, b) == IF a <= b THEN a ELSE b
Max2(a, b) == IF a >= b THEN a ELSE b
Abs(v) == IF v < 0 THEN -v ELSE v

\* Math.round(x / g) * g on fixed point: nearest multiple of g, halves upwards
RoundTo(x, g) == ((2 * x + g) \div (2 * g)) * g

\* ------------------------------------------------------------------------
\* Program constants
\* ------------------------------------------------------------------------
STATE_SIZE == 9
ACTION_SIZE == 7
\* RLAgent.gamma = 0.95, in hundredths
GammaPct == 95
\* RLAgent.learningRate = 0.005, in thousandths
LearningRatePerMille == 5
\* RLAgent.epsilonDecay = 0.999, in thousandths
EpsilonDecayPerMille == 999
\* RLAgent.epsilonMin = 0.05, in hundredths
EpsilonMinPct == 5
epsilonMin == EpsilonMinPct * (QUnit \div 100)
\* RLAgent.epsilon = 1.0 after construction
EpsilonInit == QUnit

\* ------------------------------------------------------------------------
\* State codec (utils_rl.js)
\* ------------------------------------------------------------------------
Clamp(lo, hi, v) == Max2(lo, Min2(hi, v))

\* a callback that scales the y coordinate down before it clamps it
ValidateCoordinateScalingY(value, index) ==
    IF ~IsNumber(value) THEN 0
    ELSE IF index < 5 THEN Clamp(0, Unit, value)
    ELSE IF index = 5 THEN Clamp(0, Unit, value)
    ELSE IF index = 6 THEN Clamp(-Unit, Unit, value)
    ELSE IF index = 7 THEN Clamp(-(Unit \div 2), Unit + (Unit \div 2), value)
    ELSE IF index = 8 THEN Clamp(-2 * Unit, 2 * Unit, value \div 2)
    ELSE Clamp(-Unit, Unit, value)

\* the callback of state.map in validateState; index is 0-based as in the source
ValidateCoordinate(value, index) ==
    IF ~IsNumber(value) THEN 0
    ELSE IF index < 5 THEN Clamp(0, Unit, value)
    ELSE IF index = 5 THEN Clamp(0, Unit, value)
    ELSE IF index = 6 THEN Clamp(-Unit, Unit, value)
    ELSE IF index = 7 THEN Clamp(-(Unit \div 2), Unit + (Unit \div 2), value)
    ELSE IF index = 8 THEN Clamp(-2 * Unit, 2 * Unit, value)
    ELSE Clamp(-Unit, Unit, value)

\* a validateState that bounds the coordinates but leaves the length as it is
validateStateUnfitted(state, size) ==
    [i \in 1..Len(state) |-> ValidateCoordinate(state[i], i - 1)]

\* validateState(state, STATE_SIZE): map, then pad with zeros and set length
validateState(state, size) ==
    LET validatedState == [i \in 1..Len(state) |-> ValidateCoordinate(state[i], i - 1)]
    IN  [i \in 1..size |-> IF i <= Len(validatedState) THEN validatedState[i] ELSE 0]

\* Math.floor of a number held in fixed point (\div rounds down)
MathFloor(v) == v \div Unit

\* a selectAction result, an index or undefined, as the number validateAction gets
AsNumber(index) == IF IsNumber(index) THEN index * Unit ELSE index

\* validateAction(action, ACTION_SIZE); action is a number in fixed point or a
\* non-number, the result an index
validateAction(action, size) ==
    IF ~IsNumber(action) THEN 6
    ELSE Max2(0, Min2(size - 1, MathFloor(action)))

\* ------------------------------------------------------------------------
\* RLAgent (network.js)
\* ------------------------------------------------------------------------
\* Array(n).fill(0)
ZeroRow(n) == [i \in 1..n |-> 0]

\* the value of this.qTable: kind is the JavaScript type of the value, rows the
\* own properties of an object or array (key -> row)
EmptyRows == [k \in {} |-> <<>>]
EmptyTable == [kind |-> "object", rows |-> EmptyRows]

\* The text of a number: "NaN", or a sign, the digits before the point and the
\* digits after it.  A key is the sequence of the texts that join(",") strings
\* together.
NaNText == [nan |-> TRUE, neg |-> FALSE, whole |-> 0, frac |-> <<>>]
Tenths(a) == (a % Unit) \div (Unit \div 10)
Hundredths(a) == ((a % Unit) \div (Unit \div 100)) % 10

\* r.toFixed(n) for r a multiple of 10^-n, n = 1 or 2: always n digits after the
\* point, and -0 prints as 0
toFixed(r, n) ==
    LET a == IF r < 0 THEN -r ELSE r
    IN  [nan |-> FALSE, neg |-> r < 0, whole |-> a \div Unit,
         frac |-> IF n = 1 THEN <<Tenths(a)>> ELSE <<Tenths(a), Hundredths(a)>>]

\* String(r) for r a multiple of 0.01, as join writes a number: no trailing zeros
\* after the point, no point for an integer, and -0 prints as 0
NumberToString(r) ==
    LET a == IF r < 0 THEN -r ELSE r
    IN  [nan |-> FALSE, neg |-> r < 0, whole |-> a \div Unit,
         frac |-> IF Hundredths(a) # 0 THEN <<Tenths(a), Hundredths(a)>>
                  ELSE IF Tenths(a) # 0 THEN <<Tenths(a)>> ELSE <<>>]

\* the _stateKey of rl_agent.js: x.toFixed(2) at every index
stateKeyTwoDecimals(state) ==
    [i \in 1..Len(state) |->
        IF ~IsNumber(ToNumber(state[i])) THEN NaNText
        ELSE toFixed(RoundTo(ToNumber(state[i]), Unit \div 100), 2)]

\* RLAgent._stateKey: (Math.round(x * 10) / 10).toFixed(1) for the first five
\* coordinates, Math.round(x * 100) / 100 for the rest, joined by ","
stateKey(state) ==
    [i \in 1..Len(state) |->
        IF ~IsNumber(ToNumber(state[i])) THEN NaNText
        ELSE IF i - 1 < 5 THEN toFixed(RoundTo(ToNumber(state[i]), Unit \div 10), 1)
        ELSE NumberToString(RoundTo(ToNumber(state[i]), Unit \div 100))]

\* row[i] for a 0-based index, undefined past the end
RowAt(row, i) == IF i + 1 <= Len(row) THEN row[i + 1] ELSE JSUndefined

\* Math.max(...row): NaN if any entry converts to NaN; null counts as 0
RECURSIVE MaxOfNumbers(_, _)
MaxOfNumbers(row, n) ==
    IF n = 1 THEN ToNumber(row[1]) ELSE Max2(MaxOfNumbers(row, n - 1), ToNumber(row[n]))

MathMax(row) ==
    IF \E i \in 1..Len(row) : ~IsNumber(ToNumber(row[i])) THEN JSNaN
    ELSE MaxOfNumbers(row, Len(row))

\* this.qTable[key] || Array(actionSize).fill(0)
RowOrZeros(q, key, nActions) ==
    IF key \in DOMAIN q.rows THEN q.rows[key] ELSE ZeroRow(nActions)

\* qValues.map((q, i) => q === maxQ ? i : -1).filter(i => i !== -1); holes are
\* skipped by map, NaN is equal to nothing
BestActions(qValues) ==
    LET maxQ == MathMax(qValues)
    IN  { i \in 0..(Len(qValues) - 1) : IsNumber(qValues[i + 1]) /\ qValues[i + 1] = maxQ }

\* qValues.indexOf(maxQ): always the first maximal index
PickFirst(best) ==
    IF best = {} THEN {JSUndefined} ELSE { i \in best : \A j \in best : i <= j }

\* bestActions[Math.floor(Math.random() * bestActions.length)]: any element, and
\* undefined when the list is empty
PickBest(best) == IF best = {} THEN {JSUndefined} ELSE best

\* the exploiting branch of selectAction: the values it can return
GreedyActions(q, state, nActions) ==
    PickBest(BestActions(RowOrZeros(q, stateKey(state), nActions)))

\* property access on this.qTable raises a TypeError when it is null
ReadRaises(q) == q.kind = "null"
\* creating a property raises (class bodies are strict code) on null and on primitives
WriteRaises(q) == q.kind \in {"null", "number"}

\* selectAction: Math.random() < epsilon can come out true iff epsilon > 0 and
\* false iff epsilon < 1
CanExplore(eps) == eps > 0
CanExploit(eps) == eps < QUnit

\* values selectAction can return, exploring or exploiting
SelectActionResults(q, eps, state, nActions, explore) ==
    IF explore THEN 0..(nActions - 1) ELSE GreedyActions(q, state, nActions)

\* Array.prototype.slice(-n): the last n elements (all of them when shorter)
SliceLast(s, n) ==
    IF Len(s) <= n THEN s ELSE SubSeq(s, Len(s) - n + 1, Len(s))

\* a buffer that on overflow keeps the oldest entries instead of the newest
StoreExperienceKeepOldest(mem, e) ==
    LET pushed == Append(mem, e)
    IN  IF Len(pushed) > MemoryCap THEN SubSeq(pushed, 1, MemoryKeep) ELSE pushed

\* RLAgent.storeExperience: push, then trim to the most recent MemoryKeep
StoreExperienceResult(mem, e) ==
    LET pushed == Append(mem, e)
    IN  IF Len(pushed) > MemoryCap THEN SliceLast(pushed, MemoryKeep) ELSE pushed

\* gamma * v and learningRate * v on fixed point
TimesGamma(v) == IF IsNumber(v) THEN (GammaPct * v) \div 100 ELSE JSNaN
TimesLearningRate(v) == IF IsNumber(v) THEN (LearningRatePerMille * v) \div 1000 ELSE JSNaN

\* row[action] = v, growing the array with holes when action is past its end
RowSet(row, action, v) ==
    [i \in 1..Max2(Len(row), action + 1) |->
        IF i = action + 1 THEN v ELSE RowAt(row, i - 1)]

\* a loop body that bootstraps from the next state even when the episode is done
LearnOneIgnoringDone(rows, e, nActions) ==
    LET key == stateKey(e.state)
        nextKey == stateKey(e.nextState)
        withKey == IF key \in DOMAIN rows THEN rows ELSE
                     [k \in DOMAIN rows \cup {key} |-> IF k = key THEN ZeroRow(nActions) ELSE rows[k]]
        withNext == IF nextKey \in DOMAIN withKey THEN withKey ELSE
                     [k \in DOMAIN withKey \cup {nextKey} |->
                         IF k = nextKey THEN ZeroRow(nActions) ELSE withKey[k]]
        target == NumAdd(e.reward, TimesGamma(MathMax(withNext[nextKey])))
        old == RowAt(withNext[key], e.action)
        new == NumAdd(old, TimesLearningRate(NumSub(target, old)))
    IN  [withNext EXCEPT ![key] = RowSet(withNext[key], e.action, new)]

\* an update that moves the value away from its target
LearnOneAwayFromTarget(rows, e, nActions) ==
    LET key == stateKey(e.state)
        nextKey == stateKey(e.nextState)
        withKey == IF key \in DOMAIN rows THEN rows ELSE
                     [k \in DOMAIN rows \cup {key} |-> IF k = key THEN ZeroRow(nActions) ELSE rows[k]]
        withNext == IF nextKey \in DOMAIN withKey THEN withKey ELSE
                     [k \in DOMAIN withKey \cup {nextKey} |->
                         IF k = nextKey THEN ZeroRow(nActions) ELSE withKey[k]]
        target == NumAdd(e.reward, IF e.done THEN 0 ELSE TimesGamma(MathMax(withNext[nextKey])))
        old == RowAt(withNext[key], e.action)
        new == NumSub(old, TimesLearningRate(NumSub(target, old)))
    IN  [withNext EXCEPT ![key] = RowSet(withNext[key], e.action, new)]

\* the body of the for-of loop of learn for one sampled experience
LearnOne(rows, e, nActions) ==
    LET key == stateKey(e.state)
        nextKey == stateKey(e.nextState)
        withKey == IF key \in DOMAIN rows THEN rows ELSE
                     [k \in DOMAIN rows \cup {key} |-> IF k = key THEN ZeroRow(nActions) ELSE rows[k]]
        withNext == IF nextKey \in DOMAIN withKey THEN withKey ELSE
                     [k \in DOMAIN withKey \cup {nextKey} |->
                         IF k = nextKey THEN ZeroRow(nActions) ELSE withKey[k]]
        target == NumAdd(e.reward, IF e.done THEN 0 ELSE TimesGamma(MathMax(withNext[nextKey])))
        old == RowAt(withNext[key], e.action)
        new == NumAdd(old, TimesLearningRate(NumSub(target, old)))
    IN  [withNext EXCEPT ![key] = RowSet(withNext[key], e.action, new)]

\* the for-of loop of learn over the sampled batch
RECURSIVE LearnBatch(_, _, _)
LearnBatch(rows, batch, nActions) ==
    IF batch = <<>> THEN rows
    ELSE LearnBatch(LearnOne(rows, Head(batch), nActions), Tail(batch), nActions)

\* the for-of loop of learn, experience by experience: the table before and
\* after each update
RECURSIVE LearnSteps(_, _, _)
LearnSteps(rows, batch, nActions) ==
    IF batch = <<>> THEN <<>>
    ELSE LET after == LearnOne(rows, Head(batch), nActions)
         IN  <<[e |-> Head(batch), before |-> rows, after |-> after]>>
                 \o LearnSteps(after, Tail(batch), nActions)

\* the guard of the earlier agent: learn returns at once only on an empty buffer
LearnSkipsOnlyWhenEmpty(mem, batchSize) == Len(mem) = 0

\* learn returns at once when the buffer is shorter than min(batchSize, 100)
LearnSkips(mem, batchSize) == Len(mem) < Min2(batchSize, LearnMinMemory)

\* actualBatchSize
ActualBatchSize(mem, batchSize) == Min2(batchSize, Len(mem))

\* the decay of the earlier agent: whatever the buffer length
DecayedEpsilonAnyMemory(mem, eps) ==
    IF eps > epsilonMin THEN (eps * EpsilonDecayPerMille) \div 1000 ELSE eps

\* a decay that never looks at epsilonMin
DecayedEpsilonNoFloor(mem, eps) ==
    IF Len(mem) > DecayMinMemory THEN (eps * EpsilonDecayPerMille) \div 1000 ELSE eps

\* the epsilon decay at the end of learn
DecayedEpsilon(mem, eps) ==
    IF Len(mem) > DecayMinMemory /\ eps > epsilonMin
    THEN (eps * EpsilonDecayPerMille) \div 1000 ELSE eps

\* ------------------------------------------------------------------------
\* Road and car (road.js, car.js)
\* ------------------------------------------------------------------------
\* new Road(carCanvas.width / 2, carCanvas.width * 0.9) with carCanvas.width = 200
RoadLeft == 10 * Unit
RoadRight == 190 * Unit
laneCount == 3

\* Road.getLaneCenter
getLaneCenter(laneIndex) ==
    LET laneWidth == (RoadRight - RoadLeft) \div laneCount
    IN  RoadLeft + (laneWidth \div 2) + Min2(laneIndex, laneCount - 1) * laneWidth

\* Car: acceleration 0.2, maxSpeed 3, friction 0.05, 0.03 rad of steering per update
acceleration == Unit \div 5
maxSpeed == 3 * Unit
friction == Unit \div 20
TurnStep == (3 * Unit) \div 100
\* Math.PI in thousandths
PiMilli == 3142
\* the y of a new or reset RL car
StartY == 100 * Unit

NoControls == [forward |-> FALSE, left |-> FALSE, right |-> FALSE, reverse |-> FALSE]

\* new Car(road.getLaneCenter(0), 100, 30, 50, "PLAYER"); readings is sensor.readings
NewCar ==
    [x |-> getLaneCenter(0), y |-> StartY, speed |-> 0, angle |-> 0, damaged |-> FALSE,
     controls |-> NoControls, readings |-> <<>>]

\* Math.sin and Math.cos of an angle in 1/Unit rad, by their Taylor polynomials
\* (exact to the fixed-point unit for the small angles a bounded run reaches)
SinOf(a) == a - ((a * a * a) \div (6 * Unit * Unit))
CosOf(a) == Unit - ((a * a) \div (2 * Unit))

\* a #move that caps the forward speed only
CarMoveNoReverseCap(car) ==
    LET c == car.controls
        s1 == car.speed + (IF c.forward THEN acceleration ELSE 0)
        s2 == s1 - (IF c.reverse THEN acceleration ELSE 0)
        s3 == IF s2 > maxSpeed THEN maxSpeed ELSE s2
        s5 == IF s3 > 0 THEN s3 - friction ELSE s3
        s6 == IF s5 < 0 THEN s5 + friction ELSE s5
        absS == IF s6 < 0 THEN -s6 ELSE s6
        speed == IF absS < friction THEN 0 ELSE s6
        flip == IF speed > 0 THEN 1 ELSE -1
        a1 == IF speed # 0 /\ c.left THEN car.angle + TurnStep * flip ELSE car.angle
        angle == IF speed # 0 /\ c.right THEN a1 - TurnStep * flip ELSE a1
    IN  [car EXCEPT !.speed = speed, !.angle = angle,
                    !.x = car.x - ((SinOf(angle) * speed) \div Unit),
                    !.y = car.y - ((CosOf(angle) * speed) \div Unit)]

\* a #move without `if (Math.abs(this.speed) < this.friction) this.speed = 0`
CarMoveWithoutStop(car) ==
    LET c == car.controls
        s1 == car.speed + (IF c.forward THEN acceleration ELSE 0)
        s2 == s1 - (IF c.reverse THEN acceleration ELSE 0)
        s3 == IF s2 > maxSpeed THEN maxSpeed ELSE s2
        s4 == IF s3 < -(maxSpeed \div 2) THEN -(maxSpeed \div 2) ELSE s3
        s5 == IF s4 > 0 THEN s4 - friction ELSE s4
        speed == IF s5 < 0 THEN s5 + friction ELSE s5
        flip == IF speed > 0 THEN 1 ELSE -1
        a1 == IF speed # 0 /\ c.left THEN car.angle + TurnStep * flip ELSE car.angle
        angle == IF speed # 0 /\ c.right THEN a1 - TurnStep * flip ELSE a1
    IN  [car EXCEPT !.speed = speed, !.angle = angle,
                    !.x = car.x - ((SinOf(angle) * speed) \div Unit),
                    !.y = car.y - ((CosOf(angle) * speed) \div Unit)]

\* Car.#move
CarMove(car) ==
    LET c == car.controls
        s1 == car.speed + (IF c.forward THEN acceleration ELSE 0)
        s2 == s1 - (IF c.reverse THEN acceleration ELSE 0)
        s3 == IF s2 > maxSpeed THEN maxSpeed ELSE s2
        s4 == IF s3 < -(maxSpeed \div 2) THEN -(maxSpeed \div 2) ELSE s3
        s5 == IF s4 > 0 THEN s4 - friction ELSE s4
        s6 == IF s5 < 0 THEN s5 + friction ELSE s5
        absS == IF s6 < 0 THEN -s6 ELSE s6
        speed == IF absS < friction THEN 0 ELSE s6
        flip == IF speed > 0 THEN 1 ELSE -1
        a1 == IF speed # 0 /\ c.left THEN car.angle + TurnStep * flip ELSE car.angle
        angle == IF speed # 0 /\ c.right THEN a1 - TurnStep * flip ELSE a1
    IN  [car EXCEPT !.speed = speed, !.angle = angle,
                    !.x = car.x - ((SinOf(angle) * speed) \div Unit),
                    !.y = car.y - ((CosOf(angle) * speed) \div Unit)]

\* ------------------------------------------------------------------------
\* Geometry (utils.js): points are records of integer coordinates, and the
\* quotient of two integers is kept exact, as <<numerator, denominator>> in
\* lowest terms with a positive denominator
\* ------------------------------------------------------------------------
Point(px, py) == [x |-> px, y |-> py]

RECURSIVE Gcd(_, _)
Gcd(a, b) == IF b = 0 THEN a ELSE Gcd(b, a % b)

\* top / bottom for bottom # 0
Quotient(top, bottom) ==
    LET n == IF bottom < 0 THEN -top ELSE top
        d == Abs(bottom)
        g == Gcd(d, Abs(n))
    IN  <<n \div g, d \div g>>

\* q >= 0 && q <= 1
InUnitInterval(q) == 0 <= q[1] /\ q[1] <= q[2]

\* p <= q, p = q and p < q on quotients
QuotientLeq(p, q) == p[1] * q[2] <= q[1] * p[2]

\* a lerp that starts from B and moves towards A
lerpFromB(A, B, t) == <<B * t[2] + (A - B) * t[1], t[2]>>

\* lerp(A, B, t) for integers A, B and a quotient t, over the denominator of t
lerp(A, B, t) == <<A * t[2] + (B - A) * t[1], t[2]>>

\* what getIntersection returns when it falls off its end: undefined
NoTouch == [hit |-> FALSE, x |-> <<0, 1>>, y |-> <<0, 1>>, offset |-> <<0, 1>>]

\* a getIntersection that does not look at u, the parameter along CD
getIntersectionOnLine(A, B, C, D) ==
    LET tTop == (D.x - C.x) * (A.y - C.y) - (D.y - C.y) * (A.x - C.x)
        bottom == (D.y - C.y) * (B.x - A.x) - (D.x - C.x) * (B.y - A.y)
    IN  IF bottom # 0 /\ InUnitInterval(Quotient(tTop, bottom))
        THEN [hit |-> TRUE,
              x |-> lerp(A.x, B.x, Quotient(tTop, bottom)),
              y |-> lerp(A.y, B.y, Quotient(tTop, bottom)),
              offset |-> Quotient(tTop, bottom)]
        ELSE NoTouch

\* getIntersection(A, B, C, D)
getIntersection(A, B, C, D) ==
    LET tTop == (D.x - C.x) * (A.y - C.y) - (D.y - C.y) * (A.x - C.x)
        uTop == (C.y - A.y) * (A.x - B.x) - (C.x - A.x) * (A.y - B.y)
        bottom == (D.y - C.y) * (B.x - A.x) - (D.x - C.x) * (B.y - A.y)
    IN  IF /\ bottom # 0
           /\ InUnitInterval(Quotient(tTop, bottom))
           /\ InUnitInterval(Quotient(uTop, bottom))
        THEN [hit |-> TRUE,
              x |-> lerp(A.x, B.x, Quotient(tTop, bottom)),
              y |-> lerp(A.y, B.y, Quotient(tTop, bottom)),
              offset |-> Quotient(tTop, bottom)]
        ELSE NoTouch

\* polysIntersect(poly1, poly2): true at the first pair of edges that touch
polysIntersect(poly1, poly2) ==
    \E i \in 1..Len(poly1) : \E j \in 1..Len(poly2) :
        getIntersection(poly1[i], poly1[(i % Len(poly1)) + 1],
                        poly2[j], poly2[(j % Len(poly2)) + 1]).hit

\* ------------------------------------------------------------------------
\* Sensor (sensor.js) over the road borders and the traffic of main.js, in
\* pixels
\* ------------------------------------------------------------------------
rayCount == 5
rayLength == 150
RoadInfinity == 1000000
trafficSpacing == 180
trafficStartY == 0 - 100
carWidth == 30
carHeight == 50

\* Road.borders
roadBorders ==
    << <<Point(RoadLeft \div Unit, -RoadInfinity), Point(RoadLeft \div Unit, RoadInfinity)>>,
       <<Point(RoadRight \div Unit, -RoadInfinity), Point(RoadRight \div Unit, RoadInfinity)>> >>

\* Car.#createPolygon of a car that has not turned
createPolygon(car) ==
    << Point(car.x + carWidth \div 2, car.y - carHeight \div 2),
       Point(car.x - carWidth \div 2, car.y - carHeight \div 2),
       Point(car.x - carWidth \div 2, car.y + carHeight \div 2),
       Point(car.x + carWidth \div 2, car.y + carHeight \div 2) >>

\* the traffic array of main.js after its cars' first update
Traffic ==
    [i \in 1..TrafficCount |->
        [polygon |-> createPolygon(Point(getLaneCenter((i - 1) % laneCount) \div Unit,
                                         trafficStartY - (i - 1) * trafficSpacing))]]

\* Math.sin(rayAngle) * rayLength and Math.cos(rayAngle) * rayLength to the
\* pixel, for the five rays of a car with angle 0: PI/4, PI/8, 0, -PI/8, -PI/4
RaySin == <<106, 57, 0, -57, -106>>
RayCos == <<106, 139, rayLength, 139, 106>>

\* Sensor.#castRays for a car with angle 0 (turned 0) or PI/2 (turned 1)
castRays(car) ==
    [i \in 1..rayCount |->
        << Point(car.x, car.y),
           IF car.turned = 0
           THEN Point(car.x - RaySin[i], car.y - RayCos[i])
           ELSE Point(car.x - RayCos[i], car.y + RaySin[i]) >>]

\* the edges of a polygon, each with the next point, the last with the first
PolygonEdges(poly) == [j \in 1..Len(poly) |-> <<poly[j], poly[(j % Len(poly)) + 1]>>]

\* the edges of every traffic[i].polygon, in the order #getReading visits them
RECURSIVE TrafficEdges(_)
TrafficEdges(traffic) ==
    IF traffic = <<>> THEN <<>>
    ELSE PolygonEdges(Head(traffic).polygon) \o TrafficEdges(Tail(traffic))

\* the touches array of #getReading
Touches(ray, borders, traffic) ==
    LET segments == borders \o TrafficEdges(traffic)
        all == [k \in 1..Len(segments) |->
                   getIntersection(ray[1], ray[2], segments[k][1], segments[k][2])]
    IN  SelectSeq(all, LAMBDA touch : touch.hit)

\* Math.min(...offsets)
RECURSIVE MinOffset(_)
MinOffset(touches) ==
    IF Len(touches) = 1 THEN touches[1].offset
    ELSE LET rest == MinOffset(Tail(touches))
         IN  IF QuotientLeq(touches[1].offset, rest) THEN touches[1].offset ELSE rest

\* a reading of null
NullReading == [hit |-> FALSE, null |-> TRUE]

\* a #getReading that returns the first touch it found
getReadingFirstTouch(ray, borders, traffic) ==
    LET touches == Touches(ray, borders, traffic)
    IN  IF Len(touches) = 0 THEN NullReading ELSE touches[1]

\* Sensor.#getReading(ray, roadBorders, traffic)
getReading(ray, borders, traffic) ==
    LET touches == Touches(ray, borders, traffic)
    IN  IF Len(touches) = 0 THEN NullReading
        ELSE LET minOffset == MinOffset(touches)
                 first == CHOOSE k \in 1..Len(touches) :
                             /\ touches[k].offset = minOffset
                             /\ \A j \in 1..(k - 1) : touches[j].offset # minOffset
             IN  touches[first]

\* Car.#assessDamage(roadBorders, traffic) for a car with this polygon
assessDamage(polygon, borders, traffic) ==
    \/ \E i \in 1..Len(borders) : polysIntersect(polygon, borders[i])
    \/ \E i \in 1..Len(traffic) : polysIntersect(polygon, traffic[i].polygon)

\* resetTraffic(): the traffic array it leaves, to the pixel (the update it
\* gives every new car moves the car 0.15 up the road, away from the RL car)
resetTraffic ==
    [i \in 1..TrafficCount |->
        LET lane == (i - 1) % laneCount
            y == trafficStartY - (i - 1) * trafficSpacing
        IN  [polygon |-> createPolygon(Point(getLaneCenter(lane) \div Unit,
                                             IF Abs(y - 100) < 120 THEN y - 200 ELSE y))]]

\* The geometry of the scene (borders, fifty traffic polygons) is not part of
\* the state: what Car.#assessDamage and Sensor.update compute from it is an
\* input of the update.  At the start pose the scene is known: it is the one
\* resetTraffic builds (the page's first traffic stands at the same places, and
\* traffic only drives away from there), and the two left rays meet the left
\* border.
AtStartPose(car) == car.x = getLaneCenter(0) /\ car.y = StartY /\ car.angle = 0

\* #assessDamage for a car at the start pose
StartDamage ==
    assessDamage(createPolygon(Point(getLaneCenter(0) \div Unit, StartY \div Unit)),
                 roadBorders, resetTraffic)

\* offsets of the five rays at the start pose: 30/106.07, 30/57.40, no hit x 3
StartReadings == <<(283 * Unit) \div 1000, (523 * Unit) \div 1000, JSNull, JSNull, JSNull>>
\* an obstacle close ahead on the centre ray
BlockedReadings == <<JSNull, JSNull, (3 * Unit) \div 10, JSNull, JSNull>>

\* verdicts #assessDamage can give for a car at this pose
DamageVerdicts(car) == IF AtStartPose(car) THEN {StartDamage} ELSE BOOLEAN
\* readings Sensor.update can produce for a car at this pose
SensorReadings(car) == IF AtStartPose(car) THEN {StartReadings} ELSE {StartReadings, BlockedReadings}

\* an update without the `if (!this.damaged)` around the move and the assessment
CarUpdateAlwaysMoving(car, hit, readings) ==
    [CarMove(car) EXCEPT !.damaged = hit, !.readings = readings]

\* Car.update(roadBorders, traffic) for the RL car (its brain drives nothing)
CarUpdate(car, hit, readings) ==
    LET moved == IF car.damaged THEN car ELSE [CarMove(car) EXCEPT !.damaged = hit]
    IN  [moved EXCEPT !.readings = readings]

\* the pose Car.update assesses and senses from
PoseAfterMove(car) == IF car.damaged THEN car ELSE CarMove(car)

\* a reset that forgets rlCar.damaged = false
resetRLCarKeepingDamage(car) ==
    CarUpdate([car EXCEPT !.x = getLaneCenter(0), !.y = StartY, !.speed = 0, !.angle = 0,
                          !.controls = NoControls],
              StartDamage, StartReadings)

\* resetRLCar: pose and controls reset, traffic rebuilt, then one Car.update
resetRLCar(car) ==
    CarUpdate([car EXCEPT !.x = getLaneCenter(0), !.y = StartY, !.speed = 0, !.angle = 0,
                          !.damaged = FALSE, !.controls = NoControls],
              StartDamage, StartReadings)

\* ------------------------------------------------------------------------
\* main.js: state encoding, action mapping, reward
\* ------------------------------------------------------------------------
Y_NORMALIZATION_SCALE == 2000
SENSOR_OFFSET == Unit \div 2
MIN_SPEED_THRESHOLD == Unit \div 10

\* the rawState of getRLState(car)
RawState(car) ==
    LET sensorReadings == [i \in 1..Len(car.readings) |->
                              IF car.readings[i] = JSNull THEN 0 ELSE Unit - car.readings[i]]
        angle == (car.angle * Unit) \div PiMilli
        xNorm == ((car.x - RoadLeft) * Unit) \div (RoadRight - RoadLeft)
        yNorm == car.y \div Y_NORMALIZATION_SCALE
        speedNorm == Min2((car.speed * Unit) \div maxSpeed, Unit)
    IN  sensorReadings \o <<speedNorm, angle, xNorm, yNorm>>

\* getRLState(car)
getRLState(car) == validateState(RawState(car), STATE_SIZE)

\* the switch of stepRLCar: controls for a validated action
ActionControls(action) ==
    [forward |-> action \in {0, 1, 2},
     left    |-> action \in {1, 4},
     right   |-> action \in {2, 5},
     reverse |-> action = 3]

\* a mapping whose switch runs on the flags the last tick left
ControlsCarriedOver(controls, action) ==
    [forward |-> controls.forward \/ ActionControls(action).forward,
     left    |-> controls.left \/ ActionControls(action).left,
     right   |-> controls.right \/ ActionControls(action).right,
     reverse |-> controls.reverse \/ ActionControls(action).reverse]

\* the action mapping of stepRLCar on the car's controls: all four flags are
\* set to false, then the switch sets the flags of the action
ControlsAfterMapping(controls, action) ==
    LET cleared == [controls EXCEPT !.forward = FALSE, !.left = FALSE,
                                    !.right = FALSE, !.reverse = FALSE]
    IN  [forward |-> cleared.forward \/ ActionControls(action).forward,
         left    |-> cleared.left \/ ActionControls(action).left,
         right   |-> cleared.right \/ ActionControls(action).right,
         reverse |-> cleared.reverse \/ ActionControls(action).reverse]


\* laneCenterBonus(car, road), in reward units
laneCenterBonus(car) ==
    LET dists == { Abs(car.x - getLaneCenter(i)) : i \in 0..(laneCount - 1) }
        minDist == CHOOSE d \in dists : \A o \in dists : d <= o
        laneWidth == RoadRight - RoadLeft
        distFromAnyLane == (minDist * Unit) \div laneWidth
    IN  ((Unit - Min2(distFromAnyLane, Unit)) * (QUnit \div Unit)) \div 2

\* rewards of stepRLCar, in reward units
StepPenalty == -(5 * QUnit) \div 100
TimeoutPenalty == -5 * QUnit
CollisionPenalty == -15 * QUnit

\* the else branch of stepRLCar: reward of a tick without collision
DriveReward(car) ==
    LET r1 == StepPenalty +
              (IF car.speed > MIN_SPEED_THRESHOLD THEN 2 * QUnit ELSE -(QUnit \div 2))
        centerIdx == Len(car.readings) \div 2
        frontSensor == RowAt(car.readings, centerIdx)
        blocked == IsNumber(frontSensor) /\ frontSensor < SENSOR_OFFSET
        r2 == IF blocked
              THEN r1 - 2 * QUnit + (IF car.controls.left \/ car.controls.right THEN QUnit ELSE 0)
              ELSE r1
        r3 == r2 + laneCenterBonus(car)
        distanceReward == Max2(0, (-car.y) \div 1000)
        r4 == r3 + (distanceReward * (QUnit \div Unit)) \div 10
    IN  IF car.y < -5000 * Unit THEN r4 + 50 * QUnit ELSE r4

\* ------------------------------------------------------------------------
\* Persistence: the "rlQTable" entry of localStorage
\* ------------------------------------------------------------------------
\* an entry is absent, text that is no JSON, or the JSON text of a value
MissingEntry == [kind |-> "missing", rows |-> EmptyRows]
GarbageEntry == [kind |-> "garbage", rows |-> EmptyRows]

\* JSON.stringify of a row: NaN, undefined and holes are written as null
StringifyRow(row) == [i \in 1..Len(row) |-> IF IsNumber(row[i]) THEN row[i] ELSE JSNull]

\* JSON.stringify(rlAgent.qTable): an array loses its non-index properties
StringifyTable(q) ==
    IF q.kind = "object" THEN [kind |-> "object", rows |-> [k \in DOMAIN q.rows |-> StringifyRow(q.rows[k])]]
    ELSE [kind |-> q.kind, rows |-> EmptyRows]

\* the if (savedQTable) try { JSON.parse } catch { {} } of setupRLCar
LoadQTable(entry) ==
    IF entry.kind = "missing" THEN EmptyTable
    ELSE IF entry.kind = "garbage" THEN EmptyTable
    ELSE entry

\* ------------------------------------------------------------------------
\* State
\* ------------------------------------------------------------------------
VARIABLES
    actionSize, \* RLAgent.actionSize
    memory,     \* RLAgent.memory: sequence of experiences
    qTable,     \* RLAgent.qTable
    epsilon,    \* RLAgent.epsilon
    raised,     \* TRUE once a call has thrown and nothing caught it
    stored,     \* every experience passed to storeExperience so far, in order
    learns,     \* number of learn calls so far
    sel,        \* the last selectAction call: its state, result and possible results
    lastLearn,  \* the last learn call: its batchSize, whether it returned at once,
                \* and per sampled experience the table before and after its update
    pc,         \* "load" before setupRLCar, "run" while frames are scheduled, "halted"
                \* once an exception has left animate (no frame is requested again)
    localStorage,      \* the browser's store: its "rlQTable" entry
    rlCar,             \* the RL car
    rlStepCount, episode, episodeReward, episodeStep,
    lastEpisodeReward, lastEpisodeSteps, currentAction,   \* the counters of main.js
    tick,       \* the locals of the last stepRLCar call
    frames,     \* number of animate calls so far
    codecIn, codecOut,   \* the last raw vector given to validateState, and its result
    actionIn,   \* the raw action and ACTION_SIZE given to validateAction
    actionOut,  \* its result, and the controls the action mapping of stepRLCar set
    geomIn,     \* the arguments of the last getIntersection or polysIntersect call
    geomOut,    \* and what it returned
    netIn,      \* the network and the input vector of the last feedForward or mutate call
    netOut,     \* and what the call returned or left in the network
    sampled,    \* per stored experience, how often learn has drawn it
    brainPc,    \* start-up of the AI-cars script: "load", "started" or "failed"
    bestBrain,  \* the "bestBrain" entry of localStorage
    brains,     \* cars[i].brain of the AI cars
    reloads     \* number of page reloads so far

agentVars == <<actionSize, memory, qTable, epsilon>>
callVars == <<raised, stored, learns, sel, lastLearn>>
counterVars == <<rlStepCount, episode, episodeReward, episodeStep,
                 lastEpisodeReward, lastEpisodeSteps, currentAction>>
simVars == <<pc, localStorage, rlCar, counterVars, tick, frames>>
codecVars == <<codecIn, codecOut, actionIn, actionOut>>
geomVars == <<geomIn, geomOut>>
netVars == <<netIn, netOut>>
brainVars == <<brainPc, bestBrain, brains, reloads>>
vars == <<agentVars, callVars, simVars, codecVars, brainVars, geomVars, netVars, sampled>>

NoSel == [called |-> FALSE, state |-> <<>>, result |-> 0, possible |-> {}]
NoLearn == [called |-> FALSE, batchSize |-> 0, noop |-> FALSE, steps |-> <<>>]
NoTick == [branch |-> "none", state |-> <<>>, sensed |-> 0, rawAction |-> 0, action |-> 0,
           reward |-> 0, nextState |-> <<>>, done |-> FALSE, stored |-> FALSE,
           crashSave |-> "none", periodicSave |-> "none"]

\* the module-level lets of main.js, and a store without the entry
SimInit ==
    /\ pc = "load"
    /\ localStorage = [rlQTable |-> MissingEntry]
    /\ rlCar = NewCar
    /\ rlStepCount = 0
    /\ episode = 1
    /\ episodeReward = 0
    /\ episodeStep = 0
    /\ lastEpisodeReward = 0
    /\ lastEpisodeSteps = 0
    /\ currentAction = 0
    /\ tick = NoTick
    /\ frames = 0

\* nothing validated yet, and the AI-cars script not run
NoActionIn == [raw |-> JSUndefined, size |-> ACTION_SIZE]
NoActionOut == [called |-> FALSE, stepped |-> FALSE, action |-> 0, controls |-> NoControls]
CodecInit ==
    /\ codecIn = <<>>
    /\ codecOut = <<>>
    /\ actionIn = NoActionIn
    /\ actionOut = NoActionOut
NoGeomIn == [kind |-> "none"]
NoGeomOut == [called |-> FALSE]
GeomIdle ==
    /\ geomIn = NoGeomIn
    /\ geomOut = NoGeomOut
NoNetIn == [kind |-> "none"]
NoNetOut == [called |-> FALSE]
NetIdle ==
    /\ netIn = NoNetIn
    /\ netOut = NoNetOut
    /\ sampled = <<>>

BrainsIdle ==
    /\ GeomIdle
    /\ NetIdle
    /\ brainPc = "load"
    /\ bestBrain = [kind |-> "missing", levels |-> <<>>]
    /\ brains = <<>>
    /\ reloads = 0

\* new RLAgent(stateSize, nActions, batchSize), and with epsilon set by the caller
AgentInitWith(nActions, eps) ==
    /\ actionSize = nActions
    /\ memory = <<>>
    /\ qTable = EmptyTable
    /\ epsilon = eps
    /\ raised = FALSE
    /\ stored = <<>>
    /\ learns = 0
    /\ sel = NoSel
    /\ lastLearn = NoLearn

AgentInit(nActions) == AgentInitWith(nActions, EpsilonInit)

\* ---- rlAgent.storeExperience(e) ----
StoreExperience(e) ==
    /\ ~raised
    /\ memory' = StoreExperienceResult(memory, e)
    /\ stored' = Append(stored, e)
    /\ UNCHANGED <<actionSize, qTable, epsilon, raised, learns, sel, lastLearn, simVars, codecVars, brainVars, geomVars, netVars, sampled>>

\* ---- rlAgent.learn(batchSize) ----
LearnSampling(batchSize, picks) ==
    /\ ~raised
    /\ learns' = learns + 1
    /\ IF LearnSkips(memory, batchSize)
       THEN /\ UNCHANGED <<qTable, epsilon, raised>>
            /\ lastLearn' = [called |-> TRUE, batchSize |-> batchSize, noop |-> TRUE, steps |-> <<>>]
       ELSE IF WriteRaises(qTable)
       THEN /\ raised' = TRUE
            /\ UNCHANGED <<qTable, epsilon>>
            /\ lastLearn' = [called |-> TRUE, batchSize |-> batchSize, noop |-> FALSE, steps |-> <<>>]
       ELSE \E pick \in picks :
            \E steps \in {LearnSteps(qTable.rows, [i \in DOMAIN pick |-> memory[pick[i]]], actionSize)} :
              /\ qTable' = [qTable EXCEPT !.rows = steps[Len(steps)].after]
              /\ epsilon' = DecayedEpsilon(memory, epsilon)
              /\ raised' = FALSE
              /\ lastLearn' = [called |-> TRUE, batchSize |-> batchSize, noop |-> FALSE, steps |-> steps]
    /\ UNCHANGED <<actionSize, memory, stored, sel, simVars, codecVars, brainVars, geomVars, netVars>>

\* learn: each of the actualBatchSize draws is any index of the memory
Learn(batchSize) ==
    /\ LearnSampling(batchSize, [1..ActualBatchSize(memory, batchSize) -> 1..Len(memory)])
    /\ UNCHANGED sampled

\* a lookup that stores the default row it falls back on
SelectActionCreatingRow(q, state, nActions, explore) ==
    IF ~explore /\ q.kind = "object" /\ stateKey(state) \notin DOMAIN q.rows
    THEN [q EXCEPT !.rows = [k \in DOMAIN q.rows \cup {stateKey(state)} |->
                                 IF k = stateKey(state) THEN ZeroRow(nActions) ELSE q.rows[k]]]
    ELSE q

\* this.qTable after selectAction: `this.qTable[key] || Array(n).fill(0)` only
\* reads, and the exploring branch returns before the table is touched
SelectActionTable(q, state, nActions, explore) == q

\* ---- rlAgent.selectAction(state) ----
SelectAction(state) ==
    /\ ~raised
    /\ \E explore \in BOOLEAN :
          /\ IF explore THEN CanExplore(epsilon) ELSE CanExploit(epsilon)
          /\ qTable' = SelectActionTable(qTable, state, actionSize, explore)
          /\ IF ~explore /\ ReadRaises(qTable)
             THEN raised' = TRUE /\ sel' = NoSel
             ELSE /\ raised' = FALSE
                  /\ \E a \in SelectActionResults(qTable, epsilon, state, actionSize, explore) :
                        sel' = [called |-> TRUE, state |-> state, result |-> a,
                                possible |-> SelectActionResults(qTable, epsilon, state, actionSize, explore)]
    /\ UNCHANGED <<actionSize, memory, epsilon, stored, learns, lastLearn, simVars, codecVars, brainVars, geomVars, netVars, sampled>>

\* ------------------------------------------------------------------------
\* The replay buffer on its own: storeExperience called over and over
\* ------------------------------------------------------------------------
BufferExperiences ==
    { [state |-> <<0>>, action |-> a, reward |-> 0, nextState |-> <<0>>, done |-> FALSE] : a \in {0, 1} }

BufferStore ==
    /\ Len(stored) < MaxStores
    /\ \E e \in BufferExperiences : StoreExperience(e)

BufferInit == AgentInit(ACTION_SIZE) /\ SimInit /\ CodecInit /\ BrainsIdle
BufferNext == BufferStore
SpecBuffer == BufferInit /\ [][BufferNext]_vars

\* ------------------------------------------------------------------------
\* The agent with epsilon forced to 0: store, learn and select on a few states
\* ------------------------------------------------------------------------
\* no obstacle, half speed, centred (the scenario of the design's test list)
GreedyS0 == <<0, 0, 0, 0, 0, Unit \div 2, 0, Unit \div 2, 0>>
\* an obstacle at the tip of the first ray, standing still at the start pose
GreedyS1 == <<Unit, 0, 0, 0, 0, 0, 0, Unit \div 6, Unit \div 20>>
GreedyStates == {GreedyS0, GreedyS1}

GreedyExperiences ==
    { [state |-> GreedyS0, action |-> 0, reward |-> 2 * QUnit, nextState |-> GreedyS1, done |-> FALSE],
      [state |-> GreedyS0, action |-> 3, reward |-> 2 * QUnit, nextState |-> GreedyS1, done |-> FALSE],
      [state |-> GreedyS1, action |-> 6, reward |-> -15 * QUnit, nextState |-> GreedyS0, done |-> TRUE] }

GreedyStore ==
    /\ Len(stored) < MaxGreedyStores
    /\ \E e \in GreedyExperiences : StoreExperience(e)

GreedyLearn ==
    /\ learns < MaxGreedyLearns
    /\ Learn(BATCH_SIZE)

GreedySelect ==
    /\ ~raised
    /\ \E s \in GreedyStates : SelectAction(s)

GreedyInit == AgentInitWith(ACTION_SIZE, 0) /\ SimInit /\ CodecInit /\ BrainsIdle
GreedyNext == GreedyStore \/ GreedyLearn \/ GreedySelect
SpecGreedy == GreedyInit /\ [][GreedyNext]_vars

\* ------------------------------------------------------------------------
\* The agent under stores and learn calls of several batch sizes
\* ------------------------------------------------------------------------
\* a step that lands where it started, and a crash that ends the episode in
\* that state
LearnExperiences ==
    { [state |-> GreedyS0, action |-> 0, reward |-> 2 * QUnit, nextState |-> GreedyS0, done |-> FALSE],
      [state |-> GreedyS1, action |-> 6, reward |-> -15 * QUnit, nextState |-> GreedyS0, done |-> TRUE] }

\* learn() is called with the constructor's batch size or an explicit one
LearnBatchSizes == {1, LearnMinMemory + 1}

\* epsilon after construction, after enough decays to stand just above
\* epsilonMin, and after one decay more
LearnEpsilons ==
    {EpsilonInit, epsilonMin + 10, ((epsilonMin + 10) * EpsilonDecayPerMille) \div 1000}

LearnStore ==
    /\ Len(stored) < MaxLearnStores
    /\ \E e \in LearnExperiences : StoreExperience(e)

\* learn is called until one call has applied its batch; the stores go on
LearnCall ==
    /\ learns < MaxLearnCalls
    /\ lastLearn.steps = <<>>
    /\ \E b \in LearnBatchSizes : Learn(b)

LearnInit ==
    /\ \E eps \in LearnEpsilons : AgentInitWith(ACTION_SIZE, eps)
    /\ SimInit /\ CodecInit /\ BrainsIdle
LearnNext == LearnStore \/ LearnCall
SpecLearn == LearnInit /\ [][LearnNext]_vars

\* ------------------------------------------------------------------------
\* selectAction between stores and learn calls, exploring and exploiting
\* ------------------------------------------------------------------------
\* a state none of the stored experiences mentions: an obstacle on the centre ray
SelectS2 == <<0, 0, Unit, 0, 0, 0, 0, Unit \div 2, 0>>
SelectStates == GreedyStates \cup {SelectS2}

\* always exploiting, always exploring, and either
SelectEpsilons == {0, QUnit \div 2, EpsilonInit}

SelectStore ==
    /\ Len(stored) < MaxSelectStores
    /\ \E e \in GreedyExperiences : StoreExperience(e)

SelectLearn ==
    /\ learns < MaxSelectLearns
    /\ Learn(1)

SelectCall ==
    /\ ~raised
    /\ \E s \in SelectStates : SelectAction(s)

SelectInit ==
    /\ \E eps \in SelectEpsilons : AgentInitWith(ACTION_SIZE, eps)
    /\ SimInit /\ CodecInit /\ BrainsIdle
SelectNext == SelectStore \/ SelectLearn \/ SelectCall
SpecSelect == SelectInit /\ [][SelectNext]_vars

\* ------------------------------------------------------------------------
\* epsilon over stores, learn calls and selectAction calls in any order
\* ------------------------------------------------------------------------
\* epsilon after construction, and after enough decays to stand just above
\* epsilonMin
DecayEpsilons == {EpsilonInit, epsilonMin + 10}

DecayStore ==
    /\ Len(stored) < MaxDecayStores
    /\ \E e \in {[state |-> GreedyS0, action |-> 0, reward |-> 2 * QUnit,
                    nextState |-> GreedyS1, done |-> FALSE]} : StoreExperience(e)

DecayLearn ==
    /\ learns < MaxDecayLearns
    /\ Learn(1)

DecaySelect ==
    /\ ~raised
    /\ SelectAction(GreedyS0)

DecayInit ==
    /\ \E eps \in DecayEpsilons : AgentInitWith(ACTION_SIZE, eps)
    /\ SimInit /\ CodecInit /\ BrainsIdle
DecayNext == DecayStore \/ DecayLearn \/ DecaySelect
SpecDecay == DecayInit /\ [][DecayNext]_vars

\* ------------------------------------------------------------------------
\* The program: setupRLCar once, then animate frame after frame
\* ------------------------------------------------------------------------
\* the key of the state observed by a car standing at the start pose
StartKey == stateKey(getRLState(resetRLCar(NewCar)))

\* a table saved by this version: one row of ACTION_SIZE values
CurrentEntry ==
    [kind |-> "object",
     rows |-> [k \in {StartKey} |-> [i \in 1..ACTION_SIZE |-> IF i = 7 THEN -2750 ELSE 0]]]
\* a table saved by the version of main.js with stateSize 6 and actionSize 4
LegacyEntry ==
    [kind |-> "object",
     rows |-> [k \in {stateKeyTwoDecimals(<<720, 480, 0, 0, 0, 0>>)} |-> <<0, 0, -10, 0>>]]

\* contents of the "rlQTable" entry at page load
SavedEntries ==
    { MissingEntry, GarbageEntry,
      [kind |-> "null", rows |-> EmptyRows],
      [kind |-> "number", rows |-> EmptyRows],
      [kind |-> "array", rows |-> EmptyRows],
      CurrentEntry, LegacyEntry }

\* ---- setupRLCar() ----
SetupRLCar ==
    /\ pc = "load"
    /\ pc' = "run"
    /\ actionSize' = ACTION_SIZE
    /\ memory' = <<>>
    /\ epsilon' = EpsilonInit
    /\ qTable' = LoadQTable(localStorage.rlQTable)
    /\ rlCar' = NewCar
    /\ UNCHANGED <<callVars, localStorage, counterVars, tick, frames, codecVars, brainVars, geomVars, netVars, sampled>>

\* rlCar.update(road.borders, traffic) at the end of animate
FinishFrame(car) ==
    \E pose \in {PoseAfterMove(car)} :
        \E hit \in DamageVerdicts(pose), readings \in SensorReadings(pose) :
            rlCar' = CarUpdate(car, hit, readings)

\* selectAction throws: the exception leaves stepRLCar and animate
SelectThrows(state) ==
    /\ pc' = "halted"
    /\ raised' = TRUE
    /\ tick' = [NoTick EXCEPT !.branch = "threw", !.state = state, !.sensed = Len(rlCar.readings)]
    /\ UNCHANGED <<agentVars, stored, learns, sel, lastLearn, localStorage, rlCar, counterVars>>

\* the max-steps branch of stepRLCar, which returns before the experience is stored
CutoffTick(state, rawAction, action, carA) ==
    /\ lastEpisodeReward' = episodeReward
    /\ lastEpisodeSteps' = episodeStep
    /\ episode' = episode + 1
    /\ episodeReward' = 0
    /\ episodeStep' = 0
    /\ currentAction' = action
    /\ tick' = [branch |-> "cutoff", state |-> state, sensed |-> Len(rlCar.readings),
                rawAction |-> rawAction, action |-> action, reward |-> TimeoutPenalty,
                nextState |-> <<>>, done |-> FALSE, stored |-> FALSE,
                crashSave |-> "none", periodicSave |-> "none"]
    /\ \E carR \in {resetRLCar(carA)} : FinishFrame(carR)
    /\ pc' = "run"
    /\ UNCHANGED <<agentVars, raised, stored, learns, lastLearn, localStorage, rlStepCount>>

\* a setItem outside any try: its exception leaves stepRLCar
SaveEscapesUncaught(ok) == ~ok

\* a setItem that throws inside try { ... } catch (e) { console.error(...) }:
\* the exception never leaves stepRLCar
SaveEscapes(ok) == FALSE

\* try { localStorage.setItem("rlQTable", JSON.stringify(table)) } catch (e) { }:
\* ok is whether the store accepts the write (it throws when the quota is
\* exceeded or storage is disabled)
TrySetItem(store, table, ok) ==
    IF ok THEN [store EXCEPT !.rlQTable = StringifyTable(table)] ELSE store

\* what a save did, for the record of the tick
SaveOutcome(attempted, ok) ==
    IF ~attempted THEN "none" ELSE IF ok THEN "written" ELSE "failed"

\* a save that is due one step late
PeriodicSaveDueLate(count) == (count - 1) % STEPS_COUNT = 0

\* the step counts after which stepRLCar saves
PeriodicSaveDue(count) == count % STEPS_COUNT = 0

\* an exception of the crash branch's save leaves stepRLCar and animate
SaveThrows(state, rawAction, action, carA) ==
    /\ pc' = "halted"
    /\ raised' = TRUE
    /\ currentAction' = action
    /\ rlCar' = carA
    /\ tick' = [NoTick EXCEPT !.branch = "threw", !.state = state, !.sensed = Len(rlCar.readings),
                              !.rawAction = rawAction, !.action = action, !.crashSave = "failed"]
    /\ UNCHANGED <<agentVars, stored, learns, lastLearn, localStorage, rlStepCount, episode,
                   episodeReward, episodeStep, lastEpisodeReward, lastEpisodeSteps>>

\* what follows rlAgent.learn() in stepRLCar, and the rest of the frame
AfterLearn(table, saved, car, ok) ==
    /\ rlStepCount' = rlStepCount + 1
    /\ localStorage' = IF PeriodicSaveDue(rlStepCount + 1) THEN TrySetItem(saved, table, ok)
                       ELSE saved
    /\ IF PeriodicSaveDue(rlStepCount + 1) /\ SaveEscapes(ok)
       THEN rlCar' = car /\ pc' = "halted" /\ raised' = TRUE
       ELSE FinishFrame(car) /\ pc' = "run" /\ raised' = FALSE

\* counters that are reset only after the tick's reward has been added
EpisodeCountersResetLast(collided, reward) ==
    IF collided THEN [episodeReward |-> 0, episodeStep |-> 0]
    ELSE [episodeReward |-> episodeReward + reward, episodeStep |-> episodeStep + 1]

\* episodeReward += reward; episodeStep++ of stepRLCar: they run after the crash
\* branch has already set both counters to 0
EpisodeCounters(collided, reward) ==
    [episodeReward |-> (IF collided THEN 0 ELSE episodeReward) + reward,
     episodeStep |-> (IF collided THEN 0 ELSE episodeStep) + 1]

\* stepRLCar past the max-steps check: reward, counters, storeExperience, learn
StoreTick(state, rawAction, action, carA) ==
    LET collided == carA.damaged
        reward == IF collided THEN CollisionPenalty ELSE DriveReward(carA)
        due == PeriodicSaveDue(rlStepCount + 1)
    IN  \E crashOk \in (IF collided THEN BOOLEAN ELSE {TRUE}) :
        \E periodicOk \in (IF due THEN BOOLEAN ELSE {TRUE}) :
        \E saved \in {IF collided THEN TrySetItem(localStorage, qTable, crashOk) ELSE localStorage} :
        IF collided /\ SaveEscapes(crashOk) THEN SaveThrows(state, rawAction, action, carA) ELSE
        \E carB \in {IF collided THEN resetRLCar(carA) ELSE carA} :
        \E e \in {[state |-> state, action |-> action, reward |-> reward,
                   nextState |-> getRLState(carB), done |-> carB.damaged]} :
        \E mem1 \in {StoreExperienceResult(memory, e)} :
          /\ lastEpisodeReward' = IF collided THEN episodeReward ELSE lastEpisodeReward
          /\ lastEpisodeSteps' = IF collided THEN episodeStep ELSE lastEpisodeSteps
          /\ episode' = IF collided THEN episode + 1 ELSE episode
          /\ episodeReward' = EpisodeCounters(collided, reward).episodeReward
          /\ episodeStep' = EpisodeCounters(collided, reward).episodeStep
          /\ currentAction' = action
          /\ tick' = [branch |-> IF collided THEN "collision" ELSE "drive", state |-> state,
                      sensed |-> Len(rlCar.readings), rawAction |-> rawAction, action |-> action,
                      reward |-> reward, nextState |-> e.nextState, done |-> e.done,
                      stored |-> TRUE, crashSave |-> SaveOutcome(collided, crashOk),
                      periodicSave |->
                          IF ~LearnSkips(mem1, BATCH_SIZE) /\ WriteRaises(qTable) THEN "none"
                          ELSE SaveOutcome(due, periodicOk)]
          /\ memory' = mem1
          /\ stored' = Append(stored, e)
          /\ learns' = learns + 1
          /\ actionSize' = actionSize
          /\ IF LearnSkips(mem1, BATCH_SIZE)
             THEN /\ UNCHANGED <<qTable, epsilon>>
                  /\ lastLearn' = [called |-> TRUE, batchSize |-> BATCH_SIZE, noop |-> TRUE,
                                   steps |-> <<>>]
                  /\ AfterLearn(qTable, saved, carB, periodicOk)
             ELSE IF WriteRaises(qTable)
             THEN /\ UNCHANGED <<qTable, epsilon, rlStepCount>>
                  /\ lastLearn' = [called |-> TRUE, batchSize |-> BATCH_SIZE, noop |-> FALSE,
                                   steps |-> <<>>]
                  /\ localStorage' = saved
                  /\ rlCar' = carB
                  /\ pc' = "halted"
                  /\ raised' = TRUE
             ELSE \E pick \in [1..ActualBatchSize(mem1, BATCH_SIZE) -> 1..Len(mem1)] :
                  \E steps \in {LearnSteps(qTable.rows, [i \in DOMAIN pick |-> mem1[pick[i]]],
                                            actionSize)} :
                  \E table \in {[qTable EXCEPT !.rows = steps[Len(steps)].after]} :
                    /\ qTable' = table
                    /\ lastLearn' = [called |-> TRUE, batchSize |-> BATCH_SIZE, noop |-> FALSE,
                                     steps |-> steps]
                    /\ epsilon' = DecayedEpsilon(mem1, epsilon)
                    /\ AfterLearn(table, saved, carB, periodicOk)

\* a cut-off that waits for one step more
EpisodeTimedOutLate(step) == step > MAX_EPISODE_STEPS

\* if (episodeStep >= MAX_EPISODE_STEPS) of stepRLCar
EpisodeTimedOut(step) == step >= MAX_EPISODE_STEPS

\* ---- animate(): traffic update, stepRLCar(), rlCar.update(), redraw ----
\* on the runs in which the validated action is one of those allowed
AnimateOn(allowed) ==
    /\ pc = "run"
    /\ frames < MaxFrames
    /\ frames' = frames + 1
    /\ UNCHANGED <<codecVars, brainVars, geomVars, netVars, sampled>>
    /\ \E state \in {getRLState(rlCar)}, explore \in BOOLEAN :
         /\ IF explore THEN CanExplore(epsilon) ELSE CanExploit(epsilon)
         /\ IF ~explore /\ ReadRaises(qTable)
            THEN SelectThrows(state)
            ELSE \E possible \in {SelectActionResults(qTable, epsilon, state, actionSize, explore)} :
                 \E rawAction \in possible :
                 \E action \in {validateAction(AsNumber(rawAction), ACTION_SIZE)} \cap allowed :
                 \E carA \in {[rlCar EXCEPT !.controls = ControlsAfterMapping(rlCar.controls, action)]} :
                   /\ sel' = [called |-> TRUE, state |-> state, result |-> rawAction,
                              possible |-> possible]
                   /\ IF EpisodeTimedOut(episodeStep)
                      THEN CutoffTick(state, rawAction, action, carA)
                      ELSE StoreTick(state, rawAction, action, carA)

Animate == AnimateOn(0..(ACTION_SIZE - 1))

Init ==
    /\ AgentInit(ACTION_SIZE)
    /\ SimInit
    /\ CodecInit
    /\ BrainsIdle
Next == SetupRLCar \/ Animate
Spec == Init /\ [][Next]_vars

\* the program on the runs in which selectAction only ever returns forward or
\* the no-op and the sensor keeps seeing what it saw at the start: every branch
\* of stepRLCar and both saves, with fewer runs
SaveActions == {0, 6}
SaveAnimate ==
    /\ AnimateOn(SaveActions)
    /\ rlCar'.readings = StartReadings
SaveNext == SetupRLCar \/ SaveAnimate
SpecSave == Init /\ [][SaveNext]_vars

\* the program started on any content of the saved entry
LoadInit ==
    /\ AgentInit(ACTION_SIZE)
    /\ \E entry \in SavedEntries : localStorage = [rlQTable |-> entry]
    /\ pc = "load"
    /\ rlCar = NewCar
    /\ rlStepCount = 0
    /\ episode = 1
    /\ episodeReward = 0
    /\ episodeStep = 0
    /\ lastEpisodeReward = 0
    /\ lastEpisodeSteps = 0
    /\ currentAction = 0
    /\ tick = NoTick
    /\ frames = 0
    /\ CodecInit
    /\ BrainsIdle
SpecLoad == LoadInit /\ [][Next]_vars

\* ------------------------------------------------------------------------
\* The state codec on its own: validateState on raw vectors, getRLState on cars
\* ------------------------------------------------------------------------
\* coordinates tried: the non-numbers, and numbers below, on, inside and above
\* every bound of the codec
CodecValues ==
    { JSNaN, JSUndefined, JSNull, -3 * Unit, -2 * Unit, -Unit, -(Unit \div 2), 0,
      Unit \div 2, Unit, (3 * Unit) \div 2, 2 * Unit, 3 * Unit }
CodecFills == { Unit \div 4, JSNaN, 5 * Unit }

\* raw vectors of every length up to MaxRawLen: one coordinate v, the others a fill
RawVectors ==
    { [i \in 1..n |-> IF i = at THEN v ELSE fill] :
        n \in 0..MaxRawLen, at \in 1..MaxRawLen, v \in CodecValues, fill \in CodecFills }

\* cars inside and far outside the road, with and without sensor readings
CodecCars ==
    { [NewCar EXCEPT !.x = x, !.y = y, !.speed = speed, !.angle = angle, !.readings = readings] :
        x \in {-50 * Unit, getLaneCenter(0), 400 * Unit},
        y \in {StartY, -6000 * Unit},
        speed \in {-(maxSpeed \div 2), 0, maxSpeed},
        angle \in {-2 * PiMilli, 0, 4 * Unit},
        readings \in {<<>>, StartReadings, BlockedReadings} }

\* ---- validateState(codecIn, STATE_SIZE) ----
CodecValidate ==
    /\ codecOut = <<>>
    /\ codecOut' = validateState(codecIn, STATE_SIZE)
    /\ UNCHANGED <<agentVars, callVars, simVars, codecIn, actionIn, actionOut, brainVars, geomVars, netVars, sampled>>

\* ---- getRLState(rlCar) ----
CodecObserve ==
    /\ codecOut = <<>>
    /\ codecIn' = RawState(rlCar)
    /\ codecOut' = getRLState(rlCar)
    /\ UNCHANGED <<agentVars, callVars, simVars, actionIn, actionOut, brainVars, geomVars, netVars, sampled>>

\* a raw vector to validate, or a car to observe
CodecInputs ==
    \/ codecIn \in RawVectors /\ rlCar = NewCar
    \/ codecIn = <<>> /\ rlCar \in CodecCars

CodecSpecInit ==
    /\ AgentInit(ACTION_SIZE)
    /\ CodecInputs
    /\ codecOut = <<>>
    /\ actionIn = NoActionIn
    /\ actionOut = NoActionOut
    /\ pc = "load"
    /\ localStorage = [rlQTable |-> MissingEntry]
    /\ rlStepCount = 0
    /\ episode = 1
    /\ episodeReward = 0
    /\ episodeStep = 0
    /\ lastEpisodeReward = 0
    /\ lastEpisodeSteps = 0
    /\ currentAction = 0
    /\ tick = NoTick
    /\ frames = 0
    /\ BrainsIdle
CodecNext == CodecValidate \/ CodecObserve
SpecCodec == CodecSpecInit /\ [][CodecNext]_vars

\* ------------------------------------------------------------------------
\* validateAction and the action mapping of stepRLCar on raw actions
\* ------------------------------------------------------------------------
\* NaN, undefined, null, negative, fractional, in-range and too large numbers
RawActions ==
    { JSNaN, JSUndefined, JSNull, -2 * Unit, -Unit, -(Unit \div 2), 0, Unit \div 2, Unit,
      2 * Unit, 3 * Unit + (Unit \div 2), 5 * Unit, 6 * Unit, 7 * Unit, 9 * Unit }
ActionSizes == 1..MaxActionSize

\* ---- validateAction(actionIn.raw, actionIn.size) ----
ActionValidate ==
    /\ ~actionOut.called
    /\ actionOut' = [called |-> TRUE, stepped |-> FALSE,
                     action |-> validateAction(actionIn.raw, actionIn.size),
                     controls |-> NoControls]
    /\ UNCHANGED <<agentVars, callVars, simVars, codecIn, codecOut, actionIn, brainVars, geomVars, netVars, sampled>>

\* ---- stepRLCar from the validation of rawAction to the end of the switch ----
ActionStep ==
    /\ ~actionOut.called
    /\ actionIn.size = ACTION_SIZE
    /\ \E action \in {validateAction(actionIn.raw, ACTION_SIZE)} :
         actionOut' = [called |-> TRUE, stepped |-> TRUE, action |-> action,
                       controls |-> ActionControls(action)]
    /\ UNCHANGED <<agentVars, callVars, simVars, codecIn, codecOut, actionIn, brainVars, geomVars, netVars, sampled>>

ActionInit ==
    /\ AgentInit(ACTION_SIZE) /\ SimInit /\ BrainsIdle
    /\ codecIn = <<>>
    /\ codecOut = <<>>
    /\ actionIn \in [raw : RawActions, size : ActionSizes]
    /\ actionOut = NoActionOut
ActionNext == ActionValidate \/ ActionStep
SpecAction == ActionInit /\ [][ActionNext]_vars

\* ------------------------------------------------------------------------
\* The AI cars of the earlier main.js: the "bestBrain" entry at start-up
\* ------------------------------------------------------------------------
\* lerp(A, B, t) with t = amount = 0.1
LerpTenth(A, B) == A + ((B - A) \div 10)

\* values Math.random() * 2 - 1 is sampled at
RandomWeights == { -Unit, Unit \div 2 }

\* a network of NeuronCounts = [1, 1]: one level with one bias and one weight
Network(bias, weight) ==
    [kind |-> "network", levels |-> << [biases |-> <<bias>>, weights |-> << <<weight>> >>] >>]

\* new NeuralNetwork(neuronCounts): Level.#randomize fills weights and biases
FreshNetworks == { Network(b, w) : b \in RandomWeights, w \in RandomWeights }

\* NeuralNetwork.mutate(network, 0.1): the networks it can leave in place
Mutations(network) ==
    { [network EXCEPT !.levels =
         [l \in DOMAIN network.levels |->
            [biases  |-> [i \in DOMAIN network.levels[l].biases |->
                            LerpTenth(network.levels[l].biases[i], rb)],
             weights |-> [i \in DOMAIN network.levels[l].weights |->
                            [j \in DOMAIN network.levels[l].weights[i] |->
                               LerpTenth(network.levels[l].weights[i][j], rw)]]]]] :
        rb \in RandomWeights, rw \in RandomWeights }

\* network.levels.forEach raises a TypeError when network is null or has no levels
MutateRaises(brain) == brain.kind # "network"

\* contents of the "bestBrain" entry: absent, the empty string, text that is no
\* JSON, the JSON texts null and {}, and a saved network
NoBrainEntry == [kind |-> "missing", levels |-> <<>>]
CorruptBrainKinds == {"garbage", "null", "object"}
BrainEntries ==
    { [kind |-> k, levels |-> <<>>] : k \in {"missing", "empty"} \cup CorruptBrainKinds }
        \cup FreshNetworks

\* localStorage.getItem("bestBrain") is truthy
BrainEntryTruthy(entry) == entry.kind \notin {"missing", "empty"}
\* JSON.parse raises a SyntaxError
ParseRaises(entry) == entry.kind = "garbage"

\* a load that parses the entry once and gives every car that one object: each
\* mutation then also changes the brains of the cars before it
RECURSIVE LoadBrainsSharing(_, _, _)
LoadBrainsSharing(entry, fresh, from) ==
    IF from > Len(fresh) THEN { [brains |-> fresh, failed |-> FALSE] }
    ELSE IF ParseRaises(entry) THEN { [brains |-> fresh, failed |-> TRUE] }
    ELSE IF from = 1 THEN LoadBrainsSharing(entry, [fresh EXCEPT ![1] = entry], 2)
    ELSE IF MutateRaises(entry)
         THEN { [brains |-> [fresh EXCEPT ![from] = entry], failed |-> TRUE] }
    ELSE UNION { LoadBrainsSharing(entry, [i \in DOMAIN fresh |-> IF i <= from THEN m ELSE fresh[i]],
                                   from + 1) : m \in Mutations(fresh[1]) }

\* the for loop of the start-up script over cars[from..NumCars]; the result is the
\* brains and whether an exception ended the script
RECURSIVE LoadBrains(_, _, _)
LoadBrains(entry, fresh, from) ==
    IF from > Len(fresh) THEN { [brains |-> fresh, failed |-> FALSE] }
    ELSE IF ParseRaises(entry) THEN { [brains |-> fresh, failed |-> TRUE] }
    ELSE IF from = 1 THEN LoadBrains(entry, [fresh EXCEPT ![1] = entry], 2)
    ELSE IF MutateRaises(entry)
         THEN { [brains |-> [fresh EXCEPT ![from] = entry], failed |-> TRUE] }
    ELSE UNION { LoadBrains(entry, [fresh EXCEPT ![from] = m], from + 1) : m \in Mutations(entry) }

\* ---- the start-up script: generateCars(N), then the bestBrain load ----
BrainStartup ==
    /\ brainPc = "load"
    /\ \E fresh \in [1..NumCars -> FreshNetworks] :
         IF ~BrainEntryTruthy(bestBrain)
         THEN brains' = fresh /\ brainPc' = "started"
         ELSE \E out \in LoadBrains(bestBrain, fresh, 1) :
                /\ brains' = out.brains
                /\ brainPc' = IF out.failed THEN "failed" ELSE "started"
    /\ UNCHANGED <<agentVars, callVars, simVars, codecVars, geomVars, netVars, sampled, bestBrain, reloads>>

\* ---- save(): bestCar is whichever car is ahead ----
BrainSave ==
    /\ brainPc # "load"
    /\ \E bestCar \in 1..Len(brains) : bestBrain' = brains[bestCar]
    /\ UNCHANGED <<agentVars, callVars, simVars, codecVars, geomVars, netVars, sampled, brainPc, brains, reloads>>

\* ---- discard() ----
BrainDiscard ==
    /\ brainPc # "load"
    /\ bestBrain' = NoBrainEntry
    /\ UNCHANGED <<agentVars, callVars, simVars, codecVars, geomVars, netVars, sampled, brainPc, brains, reloads>>

\* ---- the page is loaded again ----
BrainReload ==
    /\ brainPc # "load"
    /\ reloads < MaxReloads
    /\ reloads' = reloads + 1
    /\ brainPc' = "load"
    /\ brains' = <<>>
    /\ UNCHANGED <<agentVars, callVars, simVars, codecVars, geomVars, netVars, sampled, bestBrain>>

BrainsInit ==
    /\ AgentInit(ACTION_SIZE)
    /\ SimInit
    /\ CodecInit
    /\ GeomIdle
    /\ NetIdle
    /\ brainPc = "load"
    /\ bestBrain \in BrainEntries
    /\ brains = <<>>
    /\ reloads = 0
BrainsNext == BrainStartup \/ BrainSave \/ BrainDiscard \/ BrainReload
SpecBrains == BrainsInit /\ [][BrainsNext]_vars

\* ------------------------------------------------------------------------
\* Inputs of the geometry: segments, squares and sensing cars
\* ------------------------------------------------------------------------
\* cars with a sensor: at a lane centre, before and after driving up the road
SensorCars ==
    { [x |-> getLaneCenter(lane) \div Unit, y |-> (StartY \div Unit) - driven, turned |-> turned] :
        lane \in 0..(laneCount - 1), driven \in {0, 100, 280}, turned \in {0, 1} }

\* ---- inputs ----
GridPoints == {Point(px, py) : px \in 0..MaxGrid, py \in 0..MaxGrid}

\* the axis-aligned square with corner (px, py) and the given side
Square(px, py, side) ==
    <<Point(px, py), Point(px + side, py), Point(px + side, py + side), Point(px, py + side)>>
Squares == {Square(px, py, side) : px \in 0..MaxCorner, py \in 0..MaxCorner, side \in 1..MaxSide}

\* ---- getIntersection(A, B, C, D) ----
GeomIntersect ==
    /\ geomIn.kind = "segments"
    /\ ~geomOut.called
    /\ geomOut' = [called |-> TRUE,
                   value |-> getIntersection(geomIn.A, geomIn.B, geomIn.C, geomIn.D)]
    /\ UNCHANGED <<agentVars, callVars, simVars, codecVars, brainVars, geomIn, netVars, sampled>>

\* ---- polysIntersect(poly1, poly2) ----
GeomPolys ==
    /\ geomIn.kind = "polys"
    /\ ~geomOut.called
    /\ geomOut' = [called |-> TRUE, value |-> polysIntersect(geomIn.poly1, geomIn.poly2)]
    /\ UNCHANGED <<agentVars, callVars, simVars, codecVars, brainVars, geomIn, netVars, sampled>>

\* ---- car.sensor.update(road.borders, traffic) ----
GeomSense ==
    /\ geomIn.kind = "sensor"
    /\ ~geomOut.called
    /\ \E rays \in {castRays(geomIn.car)} :
         geomOut' = [called |-> TRUE, rays |-> rays,
                     value |-> [i \in 1..Len(rays) |->
                                  getReading(rays[i], geomIn.roadBorders, geomIn.traffic)]]
    /\ UNCHANGED <<agentVars, callVars, simVars, codecVars, brainVars, geomIn, netVars, sampled>>

GeomInputs ==
    \/ geomIn \in [kind : {"segments"}, A : GridPoints, B : GridPoints, C : GridPoints, D : GridPoints]
    \/ geomIn \in [kind : {"polys"}, poly1 : Squares, poly2 : Squares]
    \/ geomIn \in [kind : {"sensor"}, car : SensorCars, roadBorders : {roadBorders},
                    traffic : {Traffic, <<>>}]

GeomInit ==
    /\ AgentInit(ACTION_SIZE) /\ SimInit /\ CodecInit
    /\ brainPc = "load"
    /\ bestBrain = [kind |-> "missing", levels |-> <<>>]
    /\ brains = <<>>
    /\ reloads = 0
    /\ GeomInputs
    /\ geomOut = NoGeomOut
    /\ NetIdle
GeomNext == GeomIntersect \/ GeomPolys \/ GeomSense
SpecGeom == GeomInit /\ [][GeomNext]_vars

\* ------------------------------------------------------------------------
\* The neural network (network.js): weights, biases and inputs are numbers in
\* units of 1/Unit, a weighted sum is in units of 1/QUnit
\* ------------------------------------------------------------------------
\* sum += level.inputs[j] * level.weights[j][i] for j = from .. inputs.length - 1;
\* an input that is undefined makes the product, and with it the sum, NaN
RECURSIVE WeightedSum(_, _, _, _)
WeightedSum(inputs, weights, i, from) ==
    IF from > Len(inputs) THEN 0
    ELSE IF ~IsNumber(inputs[from]) THEN JSNaN
    ELSE LET rest == WeightedSum(inputs, weights, i, from + 1)
         IN  IF IsNumber(rest) THEN inputs[from] * weights[from][i] + rest ELSE JSNaN

\* level.inputs[i] = givenInputs[i] for i < level.inputs.length: reading past the
\* end of givenInputs gives undefined, and what lies past inputs.length is not read
LevelInputs(givenInputs, level) ==
    [j \in 1..Len(level.weights) |->
        IF j <= Len(givenInputs) THEN givenInputs[j] ELSE JSUndefined]

\* a level that also fires when the sum equals the bias
LevelFeedForwardAtThreshold(givenInputs, level) ==
    LET inputs == LevelInputs(givenInputs, level)
    IN  [i \in DOMAIN level.biases |->
           LET sum == WeightedSum(inputs, level.weights, i, 1)
           IN  IF IsNumber(sum) /\ sum >= level.biases[i] * Unit THEN Unit ELSE 0]

\* Level.feedForward: outputs[i] = 1 if sum > biases[i], else 0 (a comparison with
\* NaN is false)
LevelFeedForward(givenInputs, level) ==
    LET inputs == LevelInputs(givenInputs, level)
    IN  [i \in DOMAIN level.biases |->
           LET sum == WeightedSum(inputs, level.weights, i, 1)
           IN  IF IsNumber(sum) /\ sum > level.biases[i] * Unit THEN Unit ELSE 0]

\* NeuralNetwork.feedForward: the outputs of each level are the inputs of the next
RECURSIVE FeedForwardFrom(_, _, _)
FeedForwardFrom(inputs, levels, l) ==
    IF l > Len(levels) THEN inputs
    ELSE FeedForwardFrom(LevelFeedForward(inputs, levels[l]), levels, l + 1)
feedForward(givenInputs, network) == FeedForwardFrom(givenInputs, network.levels, 1)

\* lerp on numbers in units of 1/Unit, t a quotient: the nearest unit below
lerpUnits(A, B, t) == lerp(A, B, t)[1] \div lerp(A, B, t)[2]

\* NeuralNetwork.mutate(network, amount): every bias and every weight moves from
\* its value towards its own draw of Math.random() * 2 - 1
mutate(network, draws, amount) ==
    [network EXCEPT !.levels =
       [l \in DOMAIN network.levels |->
          [biases  |-> [i \in DOMAIN network.levels[l].biases |->
                          lerpUnits(network.levels[l].biases[i], draws.levels[l].biases[i], amount)],
           weights |-> [j \in DOMAIN network.levels[l].weights |->
                          [i \in DOMAIN network.levels[l].weights[j] |->
                             lerpUnits(network.levels[l].weights[j][i],
                                       draws.levels[l].weights[j][i], amount)]]]]]

\* new Level(inputCount, outputCount) after #randomize
Levels(inputCount, outputCount) ==
    { [biases |-> b, weights |-> w] :
        b \in [1..outputCount -> RandomWeights],
        w \in [1..inputCount -> [1..outputCount -> RandomWeights]] }

\* new NeuralNetwork([2, 2, 1]) and new NeuralNetwork([2, 1])
DeepNetworks ==
    { [kind |-> "network", levels |-> <<first, second>>] :
        first \in Levels(2, 2), second \in Levels(2, 1) }
FlatNetworks == { [kind |-> "network", levels |-> <<only>>] : only \in Levels(2, 1) }

\* input vectors of any length up to MaxInputs, of sensor offsets 0 and 1
InputVectors == UNION { [1..n -> {0, Unit}] : n \in 1..MaxInputs }

\* mutation amounts: 0, 0.1, 0.5 and 1
Amounts == { <<0, 1>>, <<1, 10>>, <<1, 2>>, <<1, 1>> }

NetFeedForward ==
    /\ netIn.kind = "feedForward"
    /\ ~netOut.called
    /\ netOut' = [called |-> TRUE, raised |-> FALSE,
                  outputs |-> feedForward(netIn.inputs, netIn.network)]
    /\ UNCHANGED <<agentVars, callVars, simVars, codecVars, brainVars, geomVars, netIn, sampled>>

NetMutate ==
    /\ netIn.kind = "mutate"
    /\ ~netOut.called
    /\ netOut' = [called |-> TRUE, raised |-> FALSE,
                  network |-> mutate(netIn.network, netIn.draws, netIn.amount)]
    /\ UNCHANGED <<agentVars, callVars, simVars, codecVars, brainVars, geomVars, netIn, sampled>>

NetInputs ==
    \/ \E n \in DeepNetworks, v \in InputVectors :
          netIn = [kind |-> "feedForward", network |-> n, inputs |-> v]
    \/ \E n \in FlatNetworks, d \in FlatNetworks, a \in Amounts :
          netIn = [kind |-> "mutate", network |-> n, draws |-> d, amount |-> a]

NetInit ==
    /\ AgentInit(ACTION_SIZE) /\ SimInit /\ CodecInit /\ GeomIdle
    /\ brainPc = "load"
    /\ bestBrain = [kind |-> "missing", levels |-> <<>>]
    /\ brains = <<>>
    /\ reloads = 0
    /\ NetInputs
    /\ netOut = NoNetOut
    /\ sampled = <<>>
NetNext == NetFeedForward \/ NetMutate
SpecNet == NetInit /\ [][NetNext]_vars

\* ------------------------------------------------------------------------
\* The RL car on its own: Car.update under the controls of any action, and
\* laneCenterBonus on cars across and beside the road
\* ------------------------------------------------------------------------
\* the car after n updates under the same controls with nothing in its way
RECURSIVE Driven(_, _, _)
Driven(car, controls, n) ==
    IF n = 0 THEN car
    ELSE Driven(CarUpdate([car EXCEPT !.controls = controls], FALSE, StartReadings),
                controls, n - 1)

\* cars that accelerated or reversed from rest for up to twenty updates: at rest,
\* half way, one update before the speed limit, and at it
DrivenCars ==
    { Driven(NewCar, ActionControls(a), n) : a \in {0, 3}, n \in {0, 9, 10, 19, 20} }

\* x of cars at the lane centres, between them, at the borders and off the road
BonusCars ==
    { [NewCar EXCEPT !.x = x] :
        x \in { -50 * Unit, RoadLeft, getLaneCenter(0), 55 * Unit, 70 * Unit, getLaneCenter(1),
                getLaneCenter(2), RoadRight, 250 * Unit } }

\* ---- the action mapping of stepRLCar, then rlCar.update(road.borders, traffic) ----
CarStep ==
    /\ netIn.kind = "none"
    /\ frames < MaxCarSteps
    /\ \E action \in 0..(ACTION_SIZE - 1) :
       \E car \in {[rlCar EXCEPT !.controls = ControlsAfterMapping(rlCar.controls, action)]} :
       \E hit \in DamageVerdicts(PoseAfterMove(car)) :
       \E readings \in SensorReadings(PoseAfterMove(car)) :
          /\ rlCar' = CarUpdate(car, hit, readings)
          /\ currentAction' = action
    /\ frames' = frames + 1
    /\ UNCHANGED <<agentVars, callVars, pc, localStorage, rlStepCount, episode, episodeReward,
                   episodeStep, lastEpisodeReward, lastEpisodeSteps, tick, codecVars,
                   brainVars, geomVars, netVars, sampled>>

\* ---- resetRLCar() ----
CarReset ==
    /\ netIn.kind = "none"
    /\ rlCar' = resetRLCar(rlCar)
    /\ UNCHANGED <<agentVars, callVars, pc, localStorage, counterVars, tick, frames, codecVars,
                   brainVars, geomVars, netVars, sampled>>

\* ---- laneCenterBonus(rlCar, road) ----
LaneBonus ==
    /\ netIn.kind = "laneCenterBonus"
    /\ ~netOut.called
    /\ netOut' = [called |-> TRUE, raised |-> FALSE, bonus |-> laneCenterBonus(rlCar)]
    /\ UNCHANGED <<agentVars, callVars, simVars, codecVars, brainVars, geomVars, netIn, sampled>>

CarInit ==
    /\ AgentInit(ACTION_SIZE) /\ CodecInit /\ GeomIdle
    /\ brainPc = "load"
    /\ bestBrain = [kind |-> "missing", levels |-> <<>>]
    /\ brains = <<>>
    /\ reloads = 0
    /\ pc = "run"
    /\ localStorage = [rlQTable |-> MissingEntry]
    /\ rlStepCount = 0
    /\ episode = 1
    /\ episodeReward = 0
    /\ episodeStep = 0
    /\ lastEpisodeReward = 0
    /\ lastEpisodeSteps = 0
    /\ currentAction = 0
    /\ tick = NoTick
    /\ frames = 0
    /\ netOut = NoNetOut
    /\ sampled = <<>>
    /\ \/ rlCar \in DrivenCars /\ netIn = NoNetIn
       \/ rlCar \in BonusCars /\ netIn = [kind |-> "laneCenterBonus"]
CarNext == CarStep \/ CarReset \/ LaneBonus
SpecCar == CarInit /\ [][CarNext]_vars

\* ------------------------------------------------------------------------
\* A car that was driven for some updates and is then left alone
\* ------------------------------------------------------------------------
\* The sums of 0.2 and 0.05 in floating point are off the exact multiple of 0.05
\* by a rounding residue (0.2 - 0.05 is 0.15000000000000002): one fixed-point
\* unit above or below stands for it.
Residues == {-1, 0, 1}

\* ---- rlCar.update with no control flag active, the car staying undamaged ----
Coast ==
    /\ rlCar' = CarUpdate([rlCar EXCEPT !.controls = NoControls], FALSE, StartReadings)
    /\ UNCHANGED <<agentVars, callVars, pc, localStorage, counterVars, tick, frames, codecVars,
                   brainVars, geomVars, netVars, sampled>>

\* cars that drove forward, forward and left, or in reverse from rest
CoastCars ==
    { [car EXCEPT !.speed = IF car.speed = 0 THEN 0 ELSE car.speed + r] :
        car \in { Driven(NewCar, ActionControls(a), n) :
                      a \in {0, 1, 3}, n \in {0, 1, MaxCoastDrives \div 2, MaxCoastDrives} },
        r \in Residues }

CoastInit ==
    /\ AgentInit(ACTION_SIZE) /\ CodecInit /\ BrainsIdle
    /\ pc = "run"
    /\ localStorage = [rlQTable |-> MissingEntry]
    /\ rlCar \in CoastCars
    /\ rlStepCount = 0
    /\ episode = 1
    /\ episodeReward = 0
    /\ episodeStep = 0
    /\ lastEpisodeReward = 0
    /\ lastEpisodeSteps = 0
    /\ currentAction = 0
    /\ tick = NoTick
    /\ frames = 0
CoastNext == Coast
\* animate requests its next frame at the end of every frame: updates keep coming
SpecCoast == CoastInit /\ [][CoastNext]_vars /\ WF_vars(Coast)

\* ------------------------------------------------------------------------
\* The agent on states that lie close together: one experience is stored and
\* learned, then actions are selected for states around it
\* ------------------------------------------------------------------------
\* validated states that differ in a sensor coordinate (index 0) around the
\* halves of a tenth and in the speed (index 5) around the halves of a hundredth
KeyStates ==
    { [i \in 1..STATE_SIZE |-> IF i = 1 THEN a ELSE IF i = 6 THEN b ELSE 0] :
        a \in { (24 * Unit) \div 100, (25 * Unit) \div 100, (34 * Unit) \div 100, (35 * Unit) \div 100 },
        b \in { -(4 * Unit) \div 1000, 0, (4 * Unit) \div 1000, (5 * Unit) \div 1000,
                (14 * Unit) \div 1000 } }

KeyStore ==
    /\ memory = <<>>
    /\ \E s \in KeyStates :
         StoreExperience([state |-> s, action |-> 2, reward |-> 2 * QUnit,
                          nextState |-> s, done |-> TRUE])

KeyLearn ==
    /\ memory # <<>>
    /\ learns < MaxKeyLearns
    /\ Learn(1)

KeySelect ==
    /\ lastLearn.steps # <<>>
    /\ ~sel.called
    /\ \E s \in KeyStates : SelectAction(s)

KeysInit == AgentInitWith(ACTION_SIZE, 0) /\ SimInit /\ CodecInit /\ BrainsIdle
KeysNext == KeyStore \/ KeyLearn \/ KeySelect
SpecKeys == KeysInit /\ [][KeysNext]_vars

\* ------------------------------------------------------------------------
\* The agent on a small deterministic decision process, epsilon forced to 0:
\* two states, two actions, every transition stored, then learn(1) again and
\* again.  From GreedyS0 action 0 pays 1 and leads to GreedyS1, action 1 pays
\* nothing and stays; from GreedyS1 action 1 pays 2 and stays, action 0 pays
\* nothing and leads back.  The best policy is 0 in GreedyS0 and 1 in GreedyS1.
\* ------------------------------------------------------------------------
MdpTransitions ==
    << [state |-> GreedyS0, action |-> 0, reward |-> QUnit, nextState |-> GreedyS1, done |-> FALSE],
       [state |-> GreedyS0, action |-> 1, reward |-> 0, nextState |-> GreedyS0, done |-> FALSE],
       [state |-> GreedyS1, action |-> 0, reward |-> 0, nextState |-> GreedyS0, done |-> FALSE],
       [state |-> GreedyS1, action |-> 1, reward |-> 2 * QUnit, nextState |-> GreedyS1, done |-> FALSE] >>

\* storeExperience of the next transition
MdpStore ==
    /\ Len(memory) < Len(MdpTransitions)
    /\ StoreExperience(MdpTransitions[Len(memory) + 1])

\* learn(1) whose draw Math.floor(Math.random() * memory.length) is k - 1
MdpLearn(k) ==
    /\ Len(memory) = Len(MdpTransitions)
    /\ learns < MaxMdpLearns
    /\ LearnSampling(1, {<<k>>})
    /\ sampled' = [sampled EXCEPT ![k] = @ + 1]

\* selectAction once learn has drawn every transition
MdpSelect ==
    /\ \A k \in DOMAIN sampled : sampled[k] >= 1
    /\ \E s \in GreedyStates : SelectAction(s)

MdpInit ==
    /\ AgentInitWith(2, 0) /\ SimInit /\ CodecInit /\ GeomIdle
    /\ brainPc = "load"
    /\ bestBrain = [kind |-> "missing", levels |-> <<>>]
    /\ brains = <<>>
    /\ reloads = 0
    /\ netIn = NoNetIn
    /\ netOut = NoNetOut
    /\ sampled = [k \in DOMAIN MdpTransitions |-> 0]
MdpNext == MdpStore \/ (\E k \in DOMAIN MdpTransitions : MdpLearn(k)) \/ MdpSelect
SpecMdp == MdpInit /\ [][MdpNext]_vars

\* ========================================================================
\* Claims
\* ========================================================================

\* C1: after any sequence of storeExperience calls the buffer never holds more
\* than MemoryCap experiences, its last element is the experience of the latest
\* call, it is the most recent contiguous run of the stored experiences in
\* insertion order, and the push that makes the length MemoryCap + 1 cuts it to
\* exactly the MemoryKeep most recent.
C1_ReplayBufferBound ==
    /\ [](/\ Len(memory) <= MemoryCap
          /\ Len(memory) <= Len(stored)
          /\ (stored # <<>> => memory # <<>>)
          /\ \A i \in 1..Len(memory) :
                memory[i] = stored[Len(stored) - Len(memory) + i])
    /\ [][IF Len(memory) = MemoryCap
          THEN Len(memory') = MemoryKeep
          ELSE Len(memory') = Len(memory) + 1]_vars

\* the buffer has overflowed and been cut: more was stored than it holds
C1_Witness ==
    /\ Len(stored) = MemoryCap + 1
    /\ Len(memory) = MemoryKeep
    /\ memory[Len(memory)] = stored[Len(stored)]

\* C2: in every tick that stores an experience, its state is the observation
\* taken before the selected action is applied and its nextState is the
\* observation of the car after the Car.update of that frame has advanced the
\* kinematics under that action.
C2_NextStateAfterUpdate ==
    [][(frames' = frames + 1 /\ tick'.stored) =>
         /\ tick'.state = getRLState(rlCar)
         /\ stored'[Len(stored')].state = tick'.state
         /\ stored'[Len(stored')].nextState = getRLState(rlCar')]_vars

\* C3: the experience stored on the tick that finds the car damaged has
\* done = TRUE and reward -15; the experience of a tick without collision has
\* done = FALSE.
C3_DoneOnCollision ==
    [][(frames' = frames + 1 /\ tick'.stored) =>
         LET e == stored'[Len(stored')]
         IN  /\ rlCar.damaged => (e.done /\ e.reward = CollisionPenalty)
             /\ ~rlCar.damaged => ~e.done]_vars

\* C4: the tick that finds episodeStep at MAX_EPISODE_STEPS with the car
\* undamaged ends the episode (episode counter up by one, counters and car
\* reset) and stores an experience whose reward is the timeout penalty -5.
C4_TimeoutPenaltyStored ==
    [][(frames' = frames + 1 /\ episodeStep >= MAX_EPISODE_STEPS /\ ~rlCar.damaged) =>
         /\ episode' = episode + 1
         /\ episodeStep' = 0
         /\ episodeReward' = 0
         /\ Len(stored') = Len(stored) + 1
         /\ stored'[Len(stored')].reward = TimeoutPenalty
         /\ TimeoutPenalty # CollisionPenalty]_vars

\* C5: at every selectAction of a tick, the first animate included, the sensor
\* of the RL car has been updated: it holds its 5 readings, and the state given
\* to selectAction has the 5 proximities in positions 0-4 and the normalized
\* speed in position 5.
C5_SensedBeforeSelect ==
    [][(frames' = frames + 1 /\ sel'.called) =>
         /\ Len(rlCar.readings) = 5
         /\ \A i \in 1..5 :
              sel'.state[i] = IF rlCar.readings[i] = JSNull THEN 0
                              ELSE Clamp(0, Unit, Unit - rlCar.readings[i])
         /\ sel'.state[6] = Clamp(0, Unit, (rlCar.speed * Unit) \div maxSpeed)]_vars

\* C6: once setupRLCar has run, every row of qTable has exactly actionSize
\* entries and every entry is a number, whatever table the "rlQTable" entry held
\* and whatever learn has done since.
C6_RowsHaveActionSize ==
    pc # "load" =>
        \A key \in DOMAIN qTable.rows :
            /\ Len(qTable.rows[key]) = actionSize
            /\ \A i \in 1..Len(qTable.rows[key]) : IsNumber(qTable.rows[key][i])

\* C7: the vector validateState returns has STATE_SIZE coordinates, all numbers,
\* each within the bound of its index; coordinates past the end of a short raw
\* vector are 0, and a raw vector of any length is accepted.
StateBounds(index) ==
    IF index <= 5 THEN <<0, Unit>>
    ELSE IF index = 6 THEN <<-Unit, Unit>>
    ELSE IF index = 7 THEN <<-(Unit \div 2), Unit + (Unit \div 2)>>
    ELSE <<-2 * Unit, 2 * Unit>>
C7_ValidStateVector ==
    codecOut # <<>> =>
        /\ Len(codecOut) = STATE_SIZE
        /\ \A i \in 1..Len(codecOut) :
             /\ IsNumber(codecOut[i])
             /\ StateBounds(i - 1)[1] <= codecOut[i]
             /\ codecOut[i] <= StateBounds(i - 1)[2]
             /\ i > Len(codecIn) => codecOut[i] = 0
             /\ (/\ i <= Len(codecIn)
                 /\ IsNumber(codecIn[i])
                 /\ StateBounds(i - 1)[1] <= codecIn[i]
                 /\ codecIn[i] <= StateBounds(i - 1)[2]) => codecOut[i] = codecIn[i]
C7_Witness ==
    /\ Len(codecIn) > STATE_SIZE
    /\ codecIn[8] = JSNaN
    /\ codecIn[9] = 5 * Unit
    /\ codecOut = <<Unit, Unit, Unit, Unit, Unit, Unit, Unit, 0, 2 * Unit>>

\* C8: whatever the "rlQTable" entry holds (nothing, text that is no JSON, or the
\* JSON text of null, of a number or of an array), setupRLCar leaves an empty
\* table on fallback, and no selectAction or learn call after it raises.
C8_LoadedTableNeverRaises ==
    /\ [](~raised /\ pc # "halted")
    /\ [][(pc = "load" /\ pc' = "run" /\ localStorage.rlQTable.kind \in {"missing", "garbage"}) =>
            qTable' = EmptyTable]_vars

\* C9: when the "bestBrain" entry is missing or corrupt, the start-up script
\* completes without an exception and every AI car keeps a brain made by
\* new NeuralNetwork.
C9_BrainFallback ==
    [][(brainPc = "load" /\ brainPc' # "load"
          /\ bestBrain.kind \in {"missing"} \cup CorruptBrainKinds) =>
         /\ brainPc' = "started"
         /\ Len(brains') = NumCars
         /\ \A i \in 1..NumCars : brains'[i] \in FreshNetworks]_vars

\* C10: with epsilon = 0 selectAction returns an index below actionSize whose
\* value in the row of the state's key (all zeros for an unseen key) is the
\* row's maximum, and every index tied for the maximum can be returned.
C10_GreedyTieBreak ==
    [][(sel' # sel /\ sel'.called) =>
         \A row \in {IF stateKey(sel'.state) \in DOMAIN qTable.rows
                      THEN qTable.rows[stateKey(sel'.state)]
                      ELSE [i \in 1..actionSize |-> 0]} :
         \A maximal \in {{ i \in 0..(actionSize - 1) :
                             \A j \in 1..actionSize : row[i + 1] >= row[j] }} :
           /\ epsilon = 0
           /\ Len(row) = actionSize
           /\ sel'.result \in maximal
           /\ sel'.possible = maximal]_vars

\* a learned row with two actions tied for a positive maximum, where the call
\* returned the second of them
C10_Witness ==
    /\ sel.called
    /\ stateKey(sel.state) \in DOMAIN qTable.rows
    /\ qTable.rows[stateKey(sel.state)][1] > 0
    /\ sel.possible = {0, 3}
    /\ sel.result = 3
\* ------------------------------------------------------------------------
\* C11: for each experience that learn processes, the table after the update
\* has the rows of the table before it plus the rows of key(state) and
\* key(nextState), a row that was absent being actionSize zeros; every entry
\* but [key(state)][action] keeps its value; and that entry becomes
\* old + learningRate * (target - old), where target is the reward when done
\* and reward + gamma * max(row of key(nextState)) otherwise, both read from
\* the table as the previous experience of the batch left it
\* ------------------------------------------------------------------------
C11_LearnUpdateRule ==
    /\ lastLearn.steps # <<>> => qTable.rows = lastLearn.steps[Len(lastLearn.steps)].after
    /\ \A i \in DOMAIN lastLearn.steps :
       \A st \in {lastLearn.steps[i]} :
       \A key \in {stateKey(st.e.state)} :
       \A nextKey \in {stateKey(st.e.nextState)} :
       \A asItStands \in {[k \in DOMAIN st.before \cup {key, nextKey} |->
                              IF k \in DOMAIN st.before THEN st.before[k]
                              ELSE [a \in 1..actionSize |-> 0]]} :
       \A old \in {asItStands[key][st.e.action + 1]} :
       \A maxNext \in {CHOOSE m \in {asItStands[nextKey][a] : a \in 1..actionSize} :
                            \A a \in 1..actionSize : asItStands[nextKey][a] <= m} :
       \A target \in {IF st.e.done THEN st.e.reward
                       ELSE st.e.reward + (GammaPct * maxNext) \div 100} :
         /\ i > 1 => st.before = lastLearn.steps[i - 1].after
         /\ DOMAIN st.after = DOMAIN asItStands
         /\ \A k \in DOMAIN st.after :
              /\ Len(st.after[k]) = actionSize
              /\ \A a \in 1..actionSize :
                   st.after[k][a] =
                     IF k = key /\ a = st.e.action + 1
                     THEN old + (LearningRatePerMille * (target - old)) \div 1000
                     ELSE asItStands[k][a]

\* a batch has processed a done experience whose next state already had a
\* learnt value, and a not-done experience that bootstrapped from a learnt value
C11_Witness ==
    /\ \E i \in DOMAIN lastLearn.steps :
         /\ lastLearn.steps[i].e.done
         /\ stateKey(lastLearn.steps[i].e.nextState) \in DOMAIN lastLearn.steps[i].before
         /\ \E a \in 1..actionSize :
              lastLearn.steps[i].before[stateKey(lastLearn.steps[i].e.nextState)][a] > 0
         /\ stateKey(lastLearn.steps[i].e.state) \notin DOMAIN lastLearn.steps[i].before
    /\ \E i \in DOMAIN lastLearn.steps :
         /\ ~lastLearn.steps[i].e.done
         /\ stateKey(lastLearn.steps[i].e.nextState) \in DOMAIN lastLearn.steps[i].before
         /\ \E a \in 1..actionSize :
              lastLearn.steps[i].before[stateKey(lastLearn.steps[i].e.nextState)][a] > 0

\* ------------------------------------------------------------------------
\* C12: a learn(batchSize) call made while memory.length < min(batchSize, 100)
\* changes nothing: the table keeps its rows and values, epsilon and the
\* buffer are as before
\* ------------------------------------------------------------------------
C12_NoOpBelowMinimum ==
    [][(/\ learns' = learns + 1
        /\ Len(memory) < (IF lastLearn'.batchSize < LearnMinMemory
                           THEN lastLearn'.batchSize ELSE LearnMinMemory))
       => (qTable' = qTable /\ epsilon' = epsilon /\ memory' = memory)]_vars

\* learn was called with a batch size above the length of a buffer that held
\* experiences, and returned at once
C12_Witness ==
    /\ lastLearn.called /\ lastLearn.noop
    /\ memory # <<>>
    /\ Len(memory) < LearnMinMemory
    /\ Len(memory) < lastLearn.batchSize
    /\ qTable = EmptyTable

\* ------------------------------------------------------------------------
\* C13: a learn(batchSize) call that does not return at once applies exactly
\* batchSize updates, also when batchSize exceeds the buffer length
\* ------------------------------------------------------------------------
C13_ExactlyBatchSizeUpdates ==
    [][(/\ learns' = learns + 1
        /\ ~(Len(memory) < (IF lastLearn'.batchSize < LearnMinMemory
                             THEN lastLearn'.batchSize ELSE LearnMinMemory)))
       => Len(lastLearn'.steps) = lastLearn'.batchSize]_vars

\* ------------------------------------------------------------------------
\* C14: a learn call multiplies epsilon by epsilonDecay once when it was a
\* learning step made with memory.length > 500 and epsilon > epsilonMin, and
\* leaves epsilon as it was in every other case
\* ------------------------------------------------------------------------
C14_EpsilonDecay ==
    [][learns' = learns + 1 =>
        epsilon' =
          IF /\ lastLearn'.steps # <<>>
             /\ Len(memory) > DecayMinMemory
             /\ epsilon > epsilonMin
          THEN (epsilon * EpsilonDecayPerMille) \div 1000
          ELSE epsilon]_vars

\* a learning step on a buffer above the threshold took epsilon from just
\* above epsilonMin to below it
C14_Witness ==
    /\ lastLearn.called /\ lastLearn.steps # <<>>
    /\ Len(memory) > DecayMinMemory
    /\ epsilon < epsilonMin
    /\ epsilon = ((epsilonMin + 10) * EpsilonDecayPerMille) \div 1000
    /\ Len(stored) = Len(memory)

\* ------------------------------------------------------------------------
\* C15: whatever the raw action and whatever ACTION_SIZE >= 1, validateAction
\* returns an integer from 0 to ACTION_SIZE - 1
\* ------------------------------------------------------------------------
C15_ValidatedActionInRange ==
    (actionOut.called /\ ~actionOut.stepped) =>
        actionOut.action \in 0..(actionIn.size - 1)

C17_ValidateStateIdempotent ==
    codecOut # <<>> =>
        /\ validateState(codecOut, STATE_SIZE) = codecOut
        /\ \A n \in 0..MaxRawLen :
             validateState(validateState(codecIn, n), n) = validateState(codecIn, n)

\* a raw vector of the wrong length with a NaN and an out-of-range number was
\* validated into a different vector
C17_Witness ==
    /\ codecOut # <<>>
    /\ Len(codecIn) < STATE_SIZE
    /\ \E i \in 1..Len(codecIn) : codecIn[i] = JSNaN /\ codecOut[i] = 0
    /\ \E i \in 1..Len(codecIn) : IsNumber(codecIn[i]) /\ codecOut[i] # codecIn[i]
    /\ validateState(codecOut, STATE_SIZE) # codecIn

\* ------------------------------------------------------------------------
\* C18: getIntersection(A, B, C, D) returns a point exactly when the lines
\* are not parallel and each segment reaches the line of the other (t and u
\* in [0, 1]); the offset it returns is t, in [0, 1], and the point is
\* A + t * (B - A), which lies on CD; parallel segments, collinear
\* overlapping ones included, and lines that cross outside a segment give
\* absent
\* ------------------------------------------------------------------------
Orient(P, Q, R) == (Q.x - P.x) * (R.y - P.y) - (Q.y - P.y) * (R.x - P.x)

C18_GetIntersection ==
    (geomOut.called /\ geomIn.kind = "segments") =>
        \A A \in {geomIn.A} : \A B \in {geomIn.B} : \A C \in {geomIn.C} : \A D \in {geomIn.D} :
        \A touch \in {geomOut.value} :
        \A parallel \in {(B.x - A.x) * (D.y - C.y) - (B.y - A.y) * (D.x - C.x) = 0} :
          /\ touch.hit <=> /\ ~parallel
                           /\ Orient(A, B, C) * Orient(A, B, D) <= 0
                           /\ Orient(C, D, A) * Orient(C, D, B) <= 0
          /\ ~touch.hit => touch = NoTouch
          /\ touch.hit =>
               \A num \in {touch.offset[1]} : \A den \in {touch.offset[2]} :
                 /\ den > 0 /\ 0 <= num /\ num <= den
                 /\ touch.x[2] = den /\ touch.y[2] = den
                 /\ touch.x[1] - A.x * den = num * (B.x - A.x)
                 /\ touch.y[1] - A.y * den = num * (B.y - A.y)
                 /\ (D.x - C.x) * (touch.y[1] - C.y * den)
                       = (D.y - C.y) * (touch.x[1] - C.x * den)

\* two segments that cross strictly inside both, away from the middle of AB
C18_Witness ==
    /\ geomOut.called /\ geomIn.kind = "segments"
    /\ geomOut.value.hit
    /\ geomOut.value.offset = <<1, 4>>
    /\ Orient(geomIn.A, geomIn.B, geomIn.C) * Orient(geomIn.A, geomIn.B, geomIn.D) < 0

\* ------------------------------------------------------------------------
\* C19: polysIntersect returns true for two axis-aligned squares that share
\* interior area and false for two disjoint ones
\* ------------------------------------------------------------------------
SquaresOverlap(P, Q) ==
    /\ P[1].x < Q[3].x /\ Q[1].x < P[3].x
    /\ P[1].y < Q[3].y /\ Q[1].y < P[3].y
SquaresDisjoint(P, Q) ==
    \/ P[3].x < Q[1].x \/ Q[3].x < P[1].x
    \/ P[3].y < Q[1].y \/ Q[3].y < P[1].y

C19_SquaresOverlapDetected ==
    (geomOut.called /\ geomIn.kind = "polys") =>
        /\ SquaresOverlap(geomIn.poly1, geomIn.poly2) => geomOut.value = TRUE
        /\ SquaresDisjoint(geomIn.poly1, geomIn.poly2) => geomOut.value = FALSE

\* ------------------------------------------------------------------------
\* C20: after Sensor.update the readings hold one entry per ray; the entry is
\* null when the ray meets no road border and no edge of a traffic polygon,
\* and otherwise it is one of the ray's intersections, with an offset no
\* larger than that of any other intersection of the ray
\* ------------------------------------------------------------------------
Obstacles(borders, traffic) ==
    {<<borders[b][1], borders[b][2]>> : b \in 1..Len(borders)}
      \cup UNION { {<<traffic[c].polygon[j], traffic[c].polygon[(j % Len(traffic[c].polygon)) + 1]>> :
                       j \in 1..Len(traffic[c].polygon)} : c \in 1..Len(traffic) }

RayHits(ray, borders, traffic) ==
    {getIntersection(ray[1], ray[2], seg[1], seg[2]) : seg \in Obstacles(borders, traffic)}
      \ {NoTouch}

C20_NearestReadingPerRay ==
    (geomOut.called /\ geomIn.kind = "sensor") =>
        /\ Len(geomOut.rays) = rayCount
        /\ DOMAIN geomOut.value = DOMAIN geomOut.rays
        /\ \A i \in DOMAIN geomOut.rays :
           \A hits \in {RayHits(geomOut.rays[i], geomIn.roadBorders, geomIn.traffic)} :
             /\ hits = {} <=> geomOut.value[i] = NullReading
             /\ hits # {} =>
                  /\ geomOut.value[i] \in hits
                  /\ \A h \in hits :
                       geomOut.value[i].offset[1] * h.offset[2]
                         <= h.offset[1] * geomOut.value[i].offset[2]

\* one update gave a null reading, a reading on a road border, and a reading
\* on the nearer of two edges of a traffic car
C20_Witness ==
    /\ geomOut.called /\ geomIn.kind = "sensor"
    /\ \E i \in DOMAIN geomOut.value : geomOut.value[i] = NullReading
    /\ \E i \in DOMAIN geomOut.value :
         /\ geomOut.value[i].hit
         /\ geomOut.value[i].x[1] = (RoadLeft \div Unit) * geomOut.value[i].x[2]
    /\ \E i \in DOMAIN geomOut.value :
         /\ geomOut.value[i].hit
         /\ Cardinality(RayHits(geomOut.rays[i], geomIn.roadBorders, geomIn.traffic)) = 2
         /\ geomOut.value[i].offset = <<1, 2>>

\* a neuron with two inputs fires: 1 if the weighted sum exceeds the bias, else 0
Fires(x1, x2, weights, biases, i) ==
    IF x1 * weights[1][i] + x2 * weights[2][i] > biases[i] * Unit THEN Unit ELSE 0

\* the hidden outputs of a [2, 2, 1] network on the inputs of the last call
Hidden(i) ==
    Fires(netIn.inputs[1], netIn.inputs[2],
          netIn.network.levels[1].weights, netIn.network.levels[1].biases, i)

\* C21: feedForward sets an output to 1 exactly when the weighted sum of the
\* level's inputs is strictly above the neuron's bias and to 0 otherwise (also
\* when sum and bias are equal); the outputs of a level are the inputs of the
\* next, and the network returns the outputs of its last level.
C21_FeedForwardThresholds ==
    (netIn.kind = "feedForward" /\ netOut.called /\ Len(netIn.inputs) = 2) =>
        /\ ~netOut.raised
        /\ netOut.outputs =
              << Fires(Hidden(1), Hidden(2), netIn.network.levels[2].weights,
                       netIn.network.levels[2].biases, 1) >>
        /\ \A i \in DOMAIN netOut.outputs : netOut.outputs[i] \in {0, Unit}

\* a call where the sum of the last neuron equals its bias, and the output is 0
C21_Witness ==
    /\ netIn.kind = "feedForward" /\ netOut.called /\ Len(netIn.inputs) = 2
    /\ Hidden(1) * netIn.network.levels[2].weights[1][1]
         + Hidden(2) * netIn.network.levels[2].weights[2][1]
         = netIn.network.levels[2].biases[1] * Unit
    /\ Hidden(1) = Unit
    /\ netOut.outputs = <<0>>

\* per weight and bias of the network of the last mutate call: the value before,
\* its own draw, and the value after
MutatedParams ==
    LET before == netIn.network.levels[1]
        draw == netIn.draws.levels[1]
        after == netOut.network.levels[1]
    IN  { <<before.biases[i], draw.biases[i], after.biases[i]>> : i \in DOMAIN before.biases }
        \cup { <<before.weights[j][1], draw.weights[j][1], after.weights[j][1]>> :
                 j \in DOMAIN before.weights }

\* C22: mutate(network, 0) leaves every weight and bias as it was, mutate(network, 1)
\* replaces each by its own fresh draw, and for any amount a value v becomes
\* v + (draw - v) * amount (to the nearest unit below).
C22_MutateInterpolates ==
    (netIn.kind = "mutate" /\ netOut.called) =>
        /\ ~netOut.raised
        /\ Len(netOut.network.levels) = Len(netIn.network.levels)
        /\ \A p \in MutatedParams :
              /\ netIn.amount = <<0, 1>> => p[3] = p[1]
              /\ netIn.amount = <<1, 1>> => p[3] = p[2]
              /\ netIn.amount[2] * (p[3] - p[1]) <= (p[2] - p[1]) * netIn.amount[1]
              /\ (p[2] - p[1]) * netIn.amount[1] < netIn.amount[2] * (p[3] - p[1]) + netIn.amount[2]

\* a mutation by 1 that changed a value, and one by 0.5 that moved a value part way
C22_Witness ==
    /\ netIn.kind = "mutate" /\ netOut.called
    /\ \/ netIn.amount = <<1, 1>> /\ \E p \in MutatedParams : p[1] # p[2] /\ p[3] = p[2]
       \/ netIn.amount = <<1, 2>> /\ \E p \in MutatedParams : p[3] # p[1] /\ p[3] # p[2]

\* C23: feedForward on an input vector whose length differs from the first
\* level's input count signals an error: it neither drops the extra entries of
\* a longer vector nor computes outputs from a shorter one.
C23_MismatchedLengthFailsFast ==
    (netIn.kind = "feedForward" /\ netOut.called
       /\ Len(netIn.inputs) # Len(netIn.network.levels[1].weights)) => netOut.raised

\* the distance from x to the nearest lane centre, and the width of a lane
NearestLaneDistance(x) ==
    LET dists == { Abs(x - getLaneCenter(i)) : i \in 0..(laneCount - 1) }
    IN  CHOOSE d \in dists : \A o \in dists : d <= o
LaneWidth == (RoadRight - RoadLeft) \div laneCount

\* C24: laneCenterBonus is within [0, 0.5], is 0.5 at a lane centre, and is 0
\* whenever the car is farther than one lane width (road width / laneCount)
\* from the nearest lane centre.
C24_LaneCenterBonus ==
    (netIn.kind = "laneCenterBonus" /\ netOut.called) =>
        /\ 0 <= netOut.bonus /\ netOut.bonus <= QUnit \div 2
        /\ NearestLaneDistance(rlCar.x) = 0 => netOut.bonus = QUnit \div 2
        /\ NearestLaneDistance(rlCar.x) > LaneWidth => netOut.bonus = 0

\* C28: after every Car.update the speed is between -maxSpeed / 2 and maxSpeed.
C28_SpeedWithinLimits ==
    (netIn.kind = "none" /\ frames > 0) =>
        /\ -(maxSpeed \div 2) <= rlCar.speed
        /\ rlCar.speed <= maxSpeed

\* an update that reversed at the reverse limit, and one that accelerated at the
\* forward limit: the cap and then friction leave the speed 0.05 inside the limit
C28_Witness ==
    /\ netIn.kind = "none" /\ frames > 0 /\ ~rlCar.damaged
    /\ \/ rlCar.controls.reverse /\ rlCar.speed = friction - (maxSpeed \div 2)
       \/ rlCar.controls.forward /\ rlCar.speed = maxSpeed - friction

\* C25: mutating one car's brain leaves the brain of every other car as it was,
\* also when all were loaded from the same saved entry: after the start-up load
\* car 0 has the saved network itself and every other car has one mutation of
\* the saved network, whatever was drawn for the cars around it.
C25_MutateLeavesOtherBrains ==
    [][(brainPc = "load" /\ brainPc' = "started" /\ bestBrain.kind = "network") =>
         /\ Len(brains') = NumCars
         /\ brains'[1] = bestBrain
         /\ \A i \in 2..NumCars : brains'[i] \in Mutations(bestBrain)]_vars

\* a start-up where the last car's mutation changed its network, and car 0 still
\* has the saved one
C25_Witness ==
    /\ brainPc = "started" /\ bestBrain.kind = "network" /\ Len(brains) = NumCars
    /\ brains[1] = bestBrain
    /\ brains[NumCars] # bestBrain
    /\ brains[NumCars] \in Mutations(bestBrain)

C27_FailedSaveDoesNotInterrupt ==
    [][(pc = "run" /\ frames' = frames + 1
          /\ (tick'.crashSave = "failed" \/ tick'.periodicSave = "failed")) =>
         /\ pc' = "run" /\ ~raised'
         /\ tick'.stored /\ Len(stored') = Len(stored) + 1
         /\ learns' = learns + 1 /\ lastLearn'.called
         /\ qTable' = IF lastLearn'.steps = <<>> THEN qTable
                      ELSE [qTable EXCEPT !.rows = lastLearn'.steps[Len(lastLearn'.steps)].after]
         /\ lastLearn'.steps # <<>> => lastLearn'.steps[1].before = qTable.rows
         /\ (tick'.crashSave # "written" /\ tick'.periodicSave # "written") =>
               localStorage' = localStorage]_vars

\* the periodic save of tick STEPS_COUNT failed (nothing was ever written to the
\* store), and the tick after it stored and learned as usual
C27_Witness ==
    /\ pc = "run" /\ frames = STEPS_COUNT + 1 /\ rlStepCount = STEPS_COUNT + 1
    /\ localStorage.rlQTable = MissingEntry
    /\ tick.stored /\ tick.periodicSave = "none" /\ tick.crashSave = "none"
    /\ lastLearn.steps # <<>>
    /\ Len(stored) = STEPS_COUNT + 1

\* x lies in the cell of the multiples of g around k * g, halves counted upwards
InCell(x, k, g) == 2 * k * g - g <= 2 * x /\ 2 * x < 2 * k * g + g

\* two states agree coordinate by coordinate after rounding: to tenths at the
\* indices 0 to 4, to hundredths from index 5 on
AgreeAfterRounding(s1, s2) ==
    /\ Len(s1) = Len(s2)
    /\ \A i \in 1..Len(s1) :
         \E k \in -100..100 :
            \E g \in {IF i <= 5 THEN Unit \div 10 ELSE Unit \div 100} :
               InCell(s1[i], k, g) /\ InCell(s2[i], k, g)

\* C29: two states have the same key exactly when they agree coordinate by
\* coordinate after rounding (one decimal at indices 0 to 4, two from index 5
\* on), and states with the same key read and update the same row: after
\* learning an experience of one state, selectAction for another state reads
\* the learned row exactly when the two agree after rounding.
C29_SameKeyIffSameRounding ==
    (sel.called /\ Len(memory) = 1 /\ lastLearn.steps # <<>>) =>
        /\ (stateKey(memory[1].state) = stateKey(sel.state))
              <=> AgreeAfterRounding(memory[1].state, sel.state)
        /\ (sel.possible = {memory[1].action})
              <=> AgreeAfterRounding(memory[1].state, sel.state)
        /\ \A key \in DOMAIN qTable.rows : key = stateKey(memory[1].state)

\* a state other than the learned one, with a negative speed that rounds to 0,
\* reads the learned row
C29_Witness ==
    /\ sel.called /\ Len(memory) = 1 /\ lastLearn.steps # <<>>
    /\ sel.state # memory[1].state
    /\ sel.state[6] < 0 /\ memory[1].state[6] > 0
    /\ sel.state[1] # memory[1].state[1]
    /\ sel.possible = {memory[1].action}

\* the best action of the decision process in each of its states
MdpOptimal(s) == IF s = GreedyS0 THEN 0 ELSE 1

\* the greedy action the table gives for a state: the first index of the row's
\* largest value
ArgMaxOfRow(s) ==
    LET row == qTable.rows[stateKey(s)]
    IN  CHOOSE a \in 0..1 : \A b \in 0..1 : row[a + 1] > row[b + 1] \/ (row[a + 1] = row[b + 1] /\ a <= b)

C31_CountersAfterTermination ==
    [][frames' = frames + 1 =>
         /\ tick'.branch = "collision" =>
               /\ episodeReward' = -15 * QUnit
               /\ episodeStep' = 1
               /\ lastEpisodeReward' = episodeReward
               /\ lastEpisodeSteps' = episodeStep
         /\ tick'.branch = "cutoff" =>
               /\ episodeReward' = 0
               /\ episodeStep' = 0
               /\ lastEpisodeReward' = episodeReward
               /\ lastEpisodeSteps' = episodeStep]_vars

\* a collision ended an episode of one step that had a reward of its own
C31_Witness ==
    /\ tick.branch = "collision"
    /\ episode = 2
    /\ lastEpisodeSteps = 1
    /\ lastEpisodeReward # 0
    /\ episodeReward = -15 * QUnit
    /\ episodeStep = 1

\* C32: at every tick boundary 0 <= episodeStep <= MAX_EPISODE_STEPS; the
\* episode counter grows by exactly 1 on each tick that ends an episode (by
\* collision or by the step-count cut-off) and stays as it is on every other
\* tick; rlStepCount is not incremented on a cut-off tick.
C32_EpisodeCounters ==
    /\ [](0 <= episodeStep /\ episodeStep <= MAX_EPISODE_STEPS)
    /\ [][/\ episode' >= episode
          /\ frames' = frames + 1 =>
                /\ episode' = episode + (IF tick'.branch \in {"collision", "cutoff"} THEN 1 ELSE 0)
                /\ tick'.branch = "cutoff" => rlStepCount' = rlStepCount
                /\ (tick'.branch = "collision") =
                       (episodeStep < MAX_EPISODE_STEPS /\ rlCar.damaged)
                /\ (tick'.branch = "cutoff") = (episodeStep >= MAX_EPISODE_STEPS)]_vars

\* an episode was cut off at MAX_EPISODE_STEPS after steps that were counted
C32_Witness ==
    /\ tick.branch = "cutoff"
    /\ lastEpisodeSteps = MAX_EPISODE_STEPS
    /\ episodeStep = 0
    /\ rlStepCount >= MAX_EPISODE_STEPS
    /\ episode >= 2

\* C33: selectAction is read-only: for seen and unseen states, exploring or
\* exploiting, a call leaves qTable (no row is created for an unseen key),
\* memory and epsilon as they were.
C33_SelectActionReadOnly ==
    [][(stored' = stored /\ learns' = learns) =>
          /\ qTable' = qTable
          /\ memory' = memory
          /\ epsilon' = epsilon
          /\ actionSize' = actionSize]_vars

\* an exploiting call on a state whose key has no row in a table that has rows
C33_Witness ==
    /\ sel.called
    /\ epsilon = 0
    /\ qTable.rows # EmptyRows
    /\ stateKey(sel.state) \notin DOMAIN qTable.rows
    /\ memory # <<>>

\* C34: over any sequence of selectAction, storeExperience and learn calls
\* epsilon never increases, never falls below epsilonMin * epsilonDecay, and
\* once epsilon <= epsilonMin it never changes again.
C34_EpsilonMonotoneAndFloored ==
    /\ [](epsilon * 1000 >= epsilonMin * EpsilonDecayPerMille)
    /\ [][/\ epsilon' <= epsilon
          /\ epsilon <= epsilonMin => epsilon' = epsilon]_vars

\* epsilon has dropped below epsilonMin and every learn call has been made on
\* a buffer long enough to decay
C34_Witness ==
    /\ epsilon < epsilonMin
    /\ epsilon * 1000 >= epsilonMin * EpsilonDecayPerMille
    /\ learns = MaxDecayLearns
    /\ lastLearn.steps # <<>>
    /\ Len(memory) > DecayMinMemory
    /\ sel.called

C36_ActionMapping ==
    [][(netIn.kind = "none" /\ frames' = frames + 1) =>
          /\ currentAction' \in 0..6
          /\ ~(rlCar'.controls.forward /\ rlCar'.controls.reverse)
          /\ ~(rlCar'.controls.left /\ rlCar'.controls.right)
          /\ rlCar'.controls.forward = (currentAction' \in {0, 1, 2})
          /\ rlCar'.controls.left = (currentAction' \in {1, 4})
          /\ rlCar'.controls.right = (currentAction' \in {2, 5})
          /\ rlCar'.controls.reverse = (currentAction' = 3)]_vars

\* a car that had been driving forward was mapped to reverse: it still rolls
\* forward and only its reverse flag is set
C36_Witness ==
    /\ netIn.kind = "none"
    /\ frames = 1
    /\ currentAction = 3
    /\ rlCar.speed > 0
    /\ rlCar.controls = [forward |-> FALSE, left |-> FALSE, right |-> FALSE, reverse |-> TRUE]

\* C37: if from some update on no control flag of an undamaged car is active,
\* its speed reaches exactly 0 after finitely many updates, and from then on
\* speed, angle and position stay as they are on every later update; on the
\* way the speed shrinks with every update and never changes sign.
C37_CoastsToRest ==
    /\ <>[](rlCar.speed = 0)
    /\ [][rlCar.speed # 0 =>
             /\ Abs(rlCar'.speed) < Abs(rlCar.speed)
             /\ rlCar'.speed * rlCar.speed >= 0]_vars
    /\ [][rlCar.speed = 0 =>
             /\ rlCar'.speed = 0
             /\ rlCar'.angle = rlCar.angle
             /\ rlCar'.x = rlCar.x
             /\ rlCar'.y = rlCar.y]_vars

\* a car that was driven, turned and then came to rest with no flag active
C37_Witness ==
    /\ rlCar.controls = NoControls
    /\ rlCar.speed = 0
    /\ rlCar.angle # 0
    /\ rlCar.y < StartY - 10 * Unit
    /\ ~rlCar.damaged

\* C38: after resetRLCar the RL car is undamaged, at the centre of lane 0 and
\* y = 100 with speed 0, angle 0 and all four control flags false, and the
\* traffic list holds TRAFFIC_COUNT new cars none of which overlaps the RL
\* car; the tick after a tick that reset the car never ends an episode by
\* collision.
C38_ResetLeavesCleanStart ==
    /\ [](/\ Len(resetTraffic) = TrafficCount
          /\ \A i \in 1..Len(resetTraffic) :
                ~polysIntersect(createPolygon(Point(getLaneCenter(0) \div Unit, StartY \div Unit)),
                                resetTraffic[i].polygon))
    /\ [][(frames' = frames + 1 /\ tick'.branch \in {"collision", "cutoff"}) =>
             /\ ~rlCar'.damaged
             /\ rlCar'.x = getLaneCenter(0) /\ rlCar'.y = 100 * Unit
             /\ rlCar'.speed = 0 /\ rlCar'.angle = 0
             /\ rlCar'.controls = NoControls]_vars
    /\ [][(frames' = frames + 1 /\ tick.branch \in {"collision", "cutoff"}) =>
             tick'.branch # "collision"]_vars

\* the tick after a collision reset drove on from the start pose
C38_Witness ==
    /\ tick.branch = "drive"
    /\ episode = 2
    /\ episodeStep = 2
    /\ lastEpisodeSteps = 1
    /\ ~rlCar.damaged

====
